---- MODULE Spec2Model ----
(***************************************************************************)
(* A model of the today-app route planner: the route optimizer             *)
(* (services/routeService.ts), the route store, the question store and     *)
(* the report store (zustand stores over a Dexie/IndexedDB database).      *)
(*                                                                         *)
(* Arrays of the source are 0-based; sequences here are 1-based, so        *)
(* coordinates[i] of the source is coordinates[i + 1] here.  Indices that  *)
(* the program stores or returns (orderedStops, order, currentStopIndex)   *)
(* keep their 0-based values.                                              *)
(***************************************************************************)
EXTENDS Integers, Sequences, FiniteSets, TLC

VARIABLES
    \* ---- optimizeRoute (services/routeService.ts) ----
    optIn,      \* the coordinates argument of the optimizeRoute call
    optKey,     \* whether ORS_API_KEY is configured in this build
    optPc,      \* "idle" | "fetching" | "done": position of the call
    optResp,    \* what the external service did: "none" | "throw" | "not_ok" | "bad_json" | "json"
    optData,    \* the JSON payload of the answer (when optResp = "json")
    optOut,     \* the value the promise resolved with
    \* ---- the database (db/dexie.ts) ----
    dbRoutes,   \* table routes: a set of Route records
    dbStops,    \* table stops: a set of Stop records
    \* ---- useRouteStore ----
    currentRoute,       \* Route | null
    stops,              \* Stop[]
    currentStopIndex,
    isLoading,
    isOptimizing,
    routeError,         \* the store's error: "none" or a message
    createCalls,        \* the createRoute calls in flight: position and locals of each
    \* ---- useReportStore and table dayReports ----
    dbReports,          \* table dayReports: a set of DayReport records
    currentReport,      \* DayReport | null
    isGenerating,
    reportError,        \* the store's error: "none" or a message
    reportCalls,        \* the generateReport calls in flight: position and locals of each
    \* ---- useQuestionStore and table questionResponses ----
    dbResponses,        \* table questionResponses: a set of QuestionResponse records
    currentResponses,   \* QuestionResponse[]
    \* ---- services/geocodeService.ts ----
    geoClock,           \* Date.now(), in milliseconds
    lastRequestTime,    \* the module variable lastRequestTime
    geoCalls,           \* the rateLimitedFetch calls in flight: position and wake-up time
    geoSent,            \* the times at which fetch was called, in the order of the calls
    \* ---- calculateSummary and its helpers (pages/VisitForm.tsx) ----
    sumIn,              \* the arguments: route, stops, responsesByStop
    sumOut,             \* the summary returned, null before the call
    \* ---- table syncQueue (db/dexie.ts) ----
    syncQueue,          \* the unsynced items: action, entity, entityId of each
    \* ---- useQuestionStore's templates and table questionTemplates ----
    dbTemplates,        \* table questionTemplates: a set of QuestionTemplate records
    templates,          \* QuestionTemplate[]
    \* ---- addStop and optimizeRouteOrder calls that overlap ----
    stopCalls,          \* the calls in flight: position and locals of each
    \* ---- useAuthStore and table users ----
    dbUsers,            \* table users: a set of User records
    user,               \* User | null
    session,            \* Session | null
    isAuthenticated,
    authCalls,          \* the checkSession calls in flight: position and locals of each
    \* ---- useDebouncedCallback (hooks/useDebounce.ts) ----
    hookClock,          \* the time, in units of 100 ms
    timers,             \* the browser's pending timeouts: id, due time and args of each
    timeoutRef,         \* timeoutRef.current: <<id>> of a timer, <<>> before the first call
    mounted,            \* whether the component using the hook is mounted
    calls,              \* the calls of the debounced callback so far: args and time
    invocations,        \* the invocations of callbackRef.current so far: args, time, and
                        \* the timer that made it (the n-th call sets the timer of id n)
    \* ---- environment ----
    nextId,     \* crypto.randomUUID(): the next fresh id
    now         \* new Date(): the clock

optVars == <<optIn, optKey, optPc, optResp, optData, optOut>>

dbVars == <<dbRoutes, dbStops>>

routeStoreVars == <<currentRoute, stops, currentStopIndex, isLoading, isOptimizing, routeError>>

\* what the optimizer's own actions leave alone, and what the route store's do
reportVars == <<dbReports, currentReport, isGenerating, reportError, reportCalls>>

responseVars == <<dbResponses, currentResponses>>

geoVars == <<geoClock, lastRequestTime, geoCalls, geoSent>>

summaryVars == <<sumIn, sumOut>>

helperVars == <<geoVars, summaryVars>>

templateVars == <<dbTemplates, templates>>

authVars == <<dbUsers, user, session, isAuthenticated, authCalls>>

hookVars == <<hookClock, timers, timeoutRef, mounted, calls, invocations>>

\* the variables of the stores and hooks that the route, report and response
\* actions never touch
lateVars == <<templateVars, stopCalls, authVars, hookVars>>

outsideOpt ==
    <<dbVars, routeStoreVars, createCalls, reportVars, responseVars, helperVars, lateVars,
      syncQueue, nextId, now>>
outsideRoute == <<optVars, lateVars, reportVars, responseVars, helperVars>>

vars ==
    <<optVars, dbVars, routeStoreVars, createCalls, reportVars, responseVars, helperVars,
      lateVars, syncQueue, nextId, now>>

(***************************************************************************)
(* Bounds of the model.                                                    *)
(***************************************************************************)
MaxPoints == 4      \* longest coordinates list handed to the optimizer
MaxLng == 2         \* coordinates are drawn from lng 0..MaxLng degrees on the equator
MaxIds == 3         \* ids crypto.randomUUID() hands out in a run
MaxCalls == 2       \* createRoute calls that can be in flight together
MaxClock == 2        \* last instant of the clock
MaxStopIds == 4     \* last id handed out while addStop calls overlap
MaxUsers == 1       \* users registered with createUser
MaxAuthClock == 3   \* last instant of the clock of the auth store
MaxDebouncedCalls == 3      \* calls of the debounced callback
MaxHookClock == 6   \* last instant of the clock of the debounce hook
MaxGeoTicks == 14   \* how far the geocoding clock runs, in ticks
GeoTickMs == 100    \* milliseconds per tick of the geocoding clock
MaxRequests == 3    \* geocoding requests sent
MaxTrendStops == 44         \* stops of a route handed to calculateTrends
MaxIssueResponses == 10     \* yes/no answers to an issue question in one report
MaxSummaryStops == 2        \* stops of the short routes handed to calculateSummary
MaxRating == 5              \* a rating is 1 to 5

\* null / undefined of the source, where the other values are records.
null == [null |-> TRUE]

(***************************************************************************)
(* Coordinates.  A coordinate is modelled by its longitude in whole        *)
(* degrees on the equator (lat = 0): there the haversine formula reduces   *)
(* to R * |dLng| * pi / 180, which is MetresPerDegree metres per degree    *)
(* (6371e3 * pi / 180, rounded to the metre).                              *)
(***************************************************************************)
Coordinates == 0..MaxLng

MetresPerDegree == 111195

Abs(x) == IF x < 0 THEN -x ELSE x

haversineDistance(from, to) == MetresPerDegree * Abs(to - from)

\* Infinity of the source: above every great-circle distance.
Infinity == MetresPerDegree * 360

\* avgSpeedMps = 25 * 1609.34 / 3600 = 11.176 m/s (in mm/s here); the quotient is
\* kept to the whole second.
estimateDuration(distanceMeters) == (distanceMeters * 1000) \div 11176

RECURSIVE SumLegs(_, _)
SumLegs(coordinates, i) ==
    IF i >= Len(coordinates) THEN 0
    ELSE haversineDistance(coordinates[i], coordinates[i + 1]) + SumLegs(coordinates, i + 1)

calculateTotalDistance(coordinates) == SumLegs(coordinates, 1)

RECURSIVE ScanNearestLast(_, _, _, _, _, _)
ScanNearestLast(coordinates, visited, current, i, nearest, nearestDistance) ==
    IF i >= Len(coordinates) THEN [nearest |-> nearest, nearestDistance |-> nearestDistance]
    ELSE IF i \notin visited
              /\ haversineDistance(coordinates[current + 1], coordinates[i + 1]) <= nearestDistance
         THEN ScanNearestLast(coordinates, visited, current, i + 1, i,
                              haversineDistance(coordinates[current + 1], coordinates[i + 1]))
         ELSE ScanNearestLast(coordinates, visited, current, i + 1, nearest, nearestDistance)

\* The for loop of basicOptimization: i ascends over 0..n-1, a candidate replaces
\* the nearest so far only when it is strictly nearer.
RECURSIVE ScanNearest(_, _, _, _, _, _)
ScanNearest(coordinates, visited, current, i, nearest, nearestDistance) ==
    IF i >= Len(coordinates) THEN [nearest |-> nearest, nearestDistance |-> nearestDistance]
    ELSE IF i \notin visited
              /\ haversineDistance(coordinates[current + 1], coordinates[i + 1]) < nearestDistance
         THEN ScanNearest(coordinates, visited, current, i + 1, i,
                          haversineDistance(coordinates[current + 1], coordinates[i + 1]))
         ELSE ScanNearest(coordinates, visited, current, i + 1, nearest, nearestDistance)

LoopContinuesOffByOne(visited, coordinates) == Cardinality(visited) < Len(coordinates) - 1

\* while (visited.size < coordinates.length)
LoopContinues(visited, coordinates) == Cardinality(visited) < Len(coordinates)

AccumulateOverwrite(totalDistance, nearestDistance) == nearestDistance

\* totalDistance += nearestDistance
Accumulate(totalDistance, nearestDistance) == totalDistance + nearestDistance

\* The while loop of basicOptimization.
RECURSIVE NearestNeighbourLoop(_, _, _, _, _)
NearestNeighbourLoop(coordinates, order, visited, current, totalDistance) ==
    IF ~LoopContinues(visited, coordinates)
    THEN [orderedStops |-> order,
          totalDistance |-> totalDistance,
          totalDuration |-> estimateDuration(totalDistance),
          legs |-> <<>>]
    ELSE LET found == ScanNearest(coordinates, visited, current, 0, -1, Infinity)
         IN  IF found.nearest # -1
             THEN NearestNeighbourLoop(coordinates,
                                       Append(order, found.nearest),
                                       visited \cup {found.nearest},
                                       found.nearest,
                                       Accumulate(totalDistance, found.nearestDistance))
             ELSE NearestNeighbourLoop(coordinates, order, visited, current, totalDistance)

\* coordinates.map((_, i) => i)
TrivialOrder(coordinates) == [i \in 1..Len(coordinates) |-> i - 1]

basicOptimization(coordinates) ==
    IF Len(coordinates) <= 2
    THEN [orderedStops |-> TrivialOrder(coordinates),
          totalDistance |-> calculateTotalDistance(coordinates),
          totalDuration |-> estimateDuration(calculateTotalDistance(coordinates)),
          legs |-> <<>>]
    ELSE NearestNeighbourLoop(coordinates, <<0>>, {0}, 0, 0)


(***************************************************************************)
(* optimizeRoute.  The answer of the external service is an input: the     *)
(* fetch rejects, answers with a non-2xx status, answers with a body that  *)
(* is not JSON, or answers with a JSON payload.  A payload is modelled by  *)
(* what the code reads of it: whether data.routes is there and non-empty,  *)
(* whether routes[0].steps is there, the steps, and distance/duration.     *)
(***************************************************************************)
ServiceDistance == 1000     \* route.distance of a payload
ServiceDuration == 90       \* route.duration of a payload

RECURSIVE SeqsUpTo(_, _)
SeqsUpTo(S, k) ==
    IF k = 0 THEN {<<>>}
    ELSE SeqsUpTo(S, k - 1) \cup {Append(q, x) : q \in SeqsUpTo(S, k - 1), x \in S}

\* The steps of a vehicle route that visits `jobs`: start, one step per job, end.
StepsOf(jobs) ==
    <<[type |-> "start", job |-> 0]>>
    \o [i \in 1..Len(jobs) |-> [type |-> "job", job |-> jobs[i]]]
    \o <<[type |-> "end", job |-> 0]>>

\* Job ids of a request are 1..n-1 (coordinates.slice(1), id: index + 1).
Payloads(n) ==
    {[routes |-> r, hasSteps |-> FALSE, steps |-> <<>>,
      distance |-> ServiceDistance, duration |-> ServiceDuration] : r \in {"absent", "empty", "one"}}
    \cup {[routes |-> "one", hasSteps |-> TRUE, steps |-> StepsOf(jobs),
           distance |-> ServiceDistance, duration |-> ServiceDuration] :
              jobs \in SeqsUpTo(1..(n - 1), n - 1)}

IsJobStep(step) == step.type = "job"

\* route.steps.filter(step => step.type === 'job').map(step => step.job), then unshift(0)
OrderedStopsOf(steps) ==
    LET jobSteps == SelectSeq(steps, IsJobStep)
    IN  <<0>> \o [i \in 1..Len(jobSteps) |-> jobSteps[i].job]

\* Lines 53-77 of optimizeRoute: what the call resolves with for a JSON payload.
ServiceResult(coordinates, data) ==
    IF data.routes # "one" THEN basicOptimization(coordinates)     \* throw 'No routes returned', caught
    ELSE IF ~data.hasSteps THEN basicOptimization(coordinates)     \* TypeError on route.steps.filter, caught
    ELSE [orderedStops |-> OrderedStopsOf(data.steps),
          totalDistance |-> data.distance,
          totalDuration |-> data.duration,
          legs |-> <<>>]

NoData == [routes |-> "absent", hasSteps |-> FALSE, steps |-> <<>>, distance |-> 0, duration |-> 0]

OptInit ==
    /\ optIn \in {q \in SeqsUpTo(Coordinates, MaxPoints) : Len(q) >= 1}
    /\ optKey \in BOOLEAN
    /\ optPc = "idle"
    /\ optResp = "none"
    /\ optData = NoData
    /\ optOut = null

\* coordinates.length < 2: return null
OptimizeTooShort ==
    /\ optPc = "idle"
    /\ Len(optIn) < 2
    /\ optPc' = "done"
    /\ optOut' = null
    /\ UNCHANGED <<optIn, optKey, optResp, optData, outsideOpt>>

\* no API key: return basicOptimization(coordinates)
OptimizeNoKey ==
    /\ optPc = "idle"
    /\ Len(optIn) >= 2
    /\ ~optKey
    /\ optPc' = "done"
    /\ optOut' = basicOptimization(optIn)
    /\ UNCHANGED <<optIn, optKey, optResp, optData, outsideOpt>>

\* await fetch(...)
OptimizeFetch ==
    /\ optPc = "idle"
    /\ Len(optIn) >= 2
    /\ optKey
    /\ optPc' = "fetching"
    /\ UNCHANGED <<optIn, optKey, optResp, optData, optOut, outsideOpt>>

\* fetch rejects, !response.ok, or response.json() rejects: the catch block
OptimizeFetchFails ==
    /\ optPc = "fetching"
    /\ \E kind \in {"throw", "not_ok", "bad_json"} : optResp' = kind
    /\ optPc' = "done"
    /\ optOut' = basicOptimization(optIn)
    /\ UNCHANGED <<optIn, optKey, optData, outsideOpt>>

\* the service answers 2xx with a JSON body
OptimizeFetchJson ==
    /\ optPc = "fetching"
    /\ \E data \in Payloads(Len(optIn)) :
          /\ optData' = data
          /\ optOut' = ServiceResult(optIn, data)
    /\ optResp' = "json"
    /\ optPc' = "done"
    /\ UNCHANGED <<optIn, optKey, outsideOpt>>

OptNext ==
    \/ OptimizeTooShort
    \/ OptimizeNoKey
    \/ OptimizeFetch
    \/ OptimizeFetchFails
    \/ OptimizeFetchJson



(***************************************************************************)
(* The database and the route store (useRouteStore).                       *)
(*                                                                         *)
(* A Route record keeps the fields the store reads or writes: id, userId,  *)
(* date, status, startedAt, completedAt, totalDistance, totalDuration.  A  *)
(* Stop record keeps id, routeId, coordinates, order, status, arrivedAt,   *)
(* departedAt.  An optional Date is <<>> when unset and <<t>> when set.    *)
(***************************************************************************)
Users == {"u1"}
Dates == {"d1", "d2"}
Callers == 1..MaxCalls

undefined == <<>>
Date(t) == <<t>>

\* { ...record, ...changes }
Merge(record, changes) ==
    [f \in DOMAIN record |-> IF f \in DOMAIN changes THEN changes[f] ELSE record[f]]

\* table.update(id, changes)
DbUpdate(table, id, changes) ==
    {IF r.id = id THEN Merge(r, changes) ELSE r : r \in table}

\* Promise.all(updates.map(s => db.stops.update(s.id, { order: s.order }))), applied in
\* the order issued
RECURSIVE DbUpdateOrders(_, _, _)
DbUpdateOrders(table, updates, i) ==
    IF i > Len(updates) THEN table
    ELSE DbUpdateOrders(DbUpdate(table, updates[i].id, [order |-> updates[i].order]),
                        updates, i + 1)

\* sortBy('order') of a collection: ascending order, the primary key deciding ties
RECURSIVE SortByOrder(_)
SortByOrder(S) ==
    IF S = {} THEN <<>>
    ELSE LET m == CHOOSE x \in S :
                    \A y \in S : x.order < y.order \/ (x.order = y.order /\ x.id <= y.id)
         IN  <<m>> \o SortByOrder(S \ {m})

getRouteStops(routeId) == SortByOrder({s \in dbStops : s.routeId = routeId})

\* db.routes.where({ userId, date }).first(): the first match in primary-key order
RoutesOn(userId, date) == {r \in dbRoutes : r.userId = userId /\ r.date = date}

FirstRoute(S) == CHOOSE r \in S : \A q \in S : r.id <= q.id

\* stops.findIndex(s => statuses.includes(s.status)): 0-based, -1 when there is none
findIndexByStatus(list, statuses) ==
    IF \E i \in 1..Len(list) : list[i].status \in statuses
    THEN (CHOOSE i \in 1..Len(list) :
             /\ list[i].status \in statuses
             /\ \A j \in 1..(i - 1) : list[j].status \notin statuses) - 1
    ELSE -1

\* x || 0: 0 when x is falsy, and the only falsy index is 0 itself
OrZero(x) == IF x = 0 THEN 0 ELSE x

\* list.map((s, index) => ({ ...s, order: index }))
Renumber(list) == [i \in 1..Len(list) |-> Merge(list[i], [order |-> i - 1])]

\* list.filter(s => s.id !== stopId)
WithoutStop(list, stopId) ==
    LET keep(s) == s.id # stopId IN SelectSeq(list, keep)

\* const [moved] = list.splice(fromIndex, 1); list.splice(toIndex, 0, moved)
MoveStop(list, fromIndex, toIndex) ==
    LET moved == list[fromIndex + 1]
        rest == SubSeq(list, 1, fromIndex) \o SubSeq(list, fromIndex + 2, Len(list))
    IN  SubSeq(rest, 1, toIndex) \o <<moved>> \o SubSeq(rest, toIndex + 1, Len(rest))

IdleCall == [pc |-> "idle", userId |-> "u1", date |-> "d1", route |-> null]

NewRoute(id, userId, date) ==
    [id |-> id, userId |-> userId, date |-> date, status |-> "planning",
     startedAt |-> undefined, completedAt |-> undefined,
     totalDistance |-> 0, totalDuration |-> 0]

NewStop(id, routeId, coordinates, order) ==
    [id |-> id, routeId |-> routeId, coordinates |-> coordinates, order |-> order,
     status |-> "pending", arrivedAt |-> undefined, departedAt |-> undefined]

IdleReportCall ==
    [pc |-> "idle", routeId |-> 0, route |-> null, report |-> null, existingReport |-> null]

ReportStoreInit ==
    /\ dbReports = {}
    /\ currentReport = null
    /\ isGenerating = FALSE
    /\ reportError = "none"
    /\ reportCalls = [c \in Callers |-> IdleReportCall]

QuestionStoreInit ==
    /\ dbResponses = {}
    /\ currentResponses = <<>>
    /\ dbTemplates = {}
    /\ templates = <<>>

\* const MIN_REQUEST_INTERVAL = 1100, in milliseconds
MIN_REQUEST_INTERVAL == 1100

\* the limit of the geocoding service: one request per second
OneSecond == 1000

\* let lastRequestTime = 0; Date.now() is far more than the interval after the epoch
GeoStart == 2 * MIN_REQUEST_INTERVAL

IdleGeoCall == [pc |-> "idle", wakeAt |-> 0]

GeoInit ==
    /\ geoClock = GeoStart
    /\ lastRequestTime = 0
    /\ geoCalls = [c \in Callers |-> IdleGeoCall]
    /\ geoSent = <<>>

\* calculateSummary has not been called
NoSummary ==
    /\ sumIn = null
    /\ sumOut = null

\* addToSyncQueue(action, entity, entityId, data): table syncQueue with the new
\* item; the item's own id, data and timestamp are left out, so that a second
\* item for the same change of the same entity is the same element
addToSyncQueue(queue, action, entity, entityId) ==
    queue \cup {[action |-> action, entity |-> entity, entityId |-> entityId,
                 synced |-> FALSE, attempts |-> 0]}

IdleStopCall == [pc |-> "idle", currentRoute |-> null, stops |-> <<>>, newStop |-> null]

IdleAuthCall == [pc |-> "idle", session |-> null]

\* useAuthStore as created, with no user registered
AuthStoreInit ==
    /\ dbUsers = {}
    /\ user = null
    /\ session = null
    /\ isAuthenticated = FALSE
    /\ authCalls = [c \in Callers |-> IdleAuthCall]

\* a component that uses useDebouncedCallback, after its first render
HookInit ==
    /\ hookClock = 0
    /\ timers = {}
    /\ timeoutRef = undefined
    /\ mounted = TRUE
    /\ calls = <<>>
    /\ invocations = <<>>

\* the stores and hooks next to the route store, and an empty sync queue
LateInit ==
    /\ AuthStoreInit
    /\ HookInit
    /\ syncQueue = {}
    /\ stopCalls = [c \in Callers |-> IdleStopCall]

StoreInit ==
    /\ LateInit
    /\ ReportStoreInit
    /\ QuestionStoreInit
    /\ GeoInit
    /\ NoSummary
    /\ dbRoutes = {}
    /\ dbStops = {}
    /\ currentRoute = null
    /\ stops = <<>>
    /\ currentStopIndex = 0
    /\ isLoading = FALSE
    /\ isOptimizing = FALSE
    /\ routeError = "none"
    /\ createCalls = [c \in Callers |-> IdleCall]
    /\ nextId = 1
    /\ now = 1

\* ---- createRoute: one action per stretch between two awaits ----

\* set({ isLoading: true, error: null }); the where({ userId, date }) query is issued
CreateRouteBegin(c, userId, date) ==
    /\ createCalls[c].pc = "idle"
    /\ isLoading' = TRUE
    /\ routeError' = "none"
    /\ createCalls' = [createCalls EXCEPT ![c] =
                          [pc |-> "query", userId |-> userId, date |-> date, route |-> null]]
    /\ UNCHANGED <<outsideRoute, syncQueue,
                   dbVars, currentRoute, stops, currentStopIndex, isOptimizing,
                   nextId, now>>

\* the query resolves: an existing route leads to getRouteStops, none to db.routes.add
CreateRouteQueried(c) ==
    LET call == createCalls[c]
        found == RoutesOn(call.userId, call.date)
    IN  /\ call.pc = "query"
        /\ IF found # {}
           THEN /\ createCalls' = [createCalls EXCEPT ![c].pc = "stops",
                                                     ![c].route = FirstRoute(found)]
                /\ UNCHANGED nextId
           ELSE /\ nextId <= MaxIds
                /\ createCalls' = [createCalls EXCEPT
                                      ![c].pc = "add",
                                      ![c].route = NewRoute(nextId, call.userId, call.date)]
                /\ nextId' = nextId + 1
        /\ UNCHANGED <<outsideRoute, syncQueue, dbVars, routeStoreVars, now>>

\* getRouteStops resolves: the existing route becomes the current one
CreateRouteExisting(c) ==
    LET call == createCalls[c]
        loaded == getRouteStops(call.route.id)
    IN  /\ call.pc = "stops"
        /\ currentRoute' = call.route
        /\ stops' = loaded
        /\ isLoading' = FALSE
        /\ currentStopIndex' = OrZero(findIndexByStatus(loaded, {"pending"}))
        /\ createCalls' = [createCalls EXCEPT ![c] = IdleCall]
        /\ UNCHANGED <<outsideRoute, syncQueue, dbVars, isOptimizing, routeError, nextId, now>>

\* db.routes.add(newRoute) commits and addToSyncQueue stores its item
CreateRouteAdded(c) ==
    /\ createCalls[c].pc = "add"
    /\ dbRoutes' = dbRoutes \cup {createCalls[c].route}
    /\ syncQueue' = addToSyncQueue(syncQueue, "create", "route", createCalls[c].route.id)
    /\ createCalls' = [createCalls EXCEPT ![c].pc = "set"]
    /\ UNCHANGED <<outsideRoute, dbStops, routeStoreVars, nextId, now>>

\* addToSyncQueue resolves: set({ currentRoute: newRoute, stops: [], ... })
CreateRouteSet(c) ==
    /\ createCalls[c].pc = "set"
    /\ currentRoute' = createCalls[c].route
    /\ stops' = <<>>
    /\ isLoading' = FALSE
    /\ currentStopIndex' = 0
    /\ createCalls' = [createCalls EXCEPT ![c] = IdleCall]
    /\ UNCHANGED <<outsideRoute, syncQueue, dbVars, isOptimizing, routeError, nextId, now>>

\* ---- addStop, removeStop, reorderStops: each call run to its end ----

AddStop(coordinates) ==
    /\ currentRoute # null
    /\ nextId <= MaxIds
    /\ LET newStop == NewStop(nextId, currentRoute.id, coordinates, Len(stops))
       IN  /\ dbStops' = dbStops \cup {newStop}
           /\ syncQueue' = addToSyncQueue(syncQueue, "create", "stop", newStop.id)
           /\ stops' = Append(stops, newStop)
    /\ nextId' = nextId + 1
    /\ UNCHANGED <<outsideRoute, dbRoutes, currentRoute, currentStopIndex, isLoading,
                   isOptimizing, routeError, createCalls, now>>

RemoveStop(stopId) ==
    /\ currentRoute # null
    /\ LET updatedStops == Renumber(WithoutStop(stops, stopId))
       IN  /\ dbStops' = DbUpdateOrders({s \in dbStops : s.id # stopId}, updatedStops, 1)
           /\ stops' = updatedStops
    /\ syncQueue' = addToSyncQueue(syncQueue, "delete", "stop", stopId)
    /\ UNCHANGED <<outsideRoute, dbRoutes, currentRoute, currentStopIndex, isLoading,
                   isOptimizing, routeError, createCalls, nextId, now>>

ReorderStops(fromIndex, toIndex) ==
    /\ LET updatedStops == Renumber(MoveStop(stops, fromIndex, toIndex))
       IN  /\ dbStops' = DbUpdateOrders(dbStops, updatedStops, 1)
           /\ stops' = updatedStops
    /\ UNCHANGED <<outsideRoute, syncQueue, dbRoutes, currentRoute, currentStopIndex, isLoading,
                   isOptimizing, routeError, createCalls, nextId, now>>

\* ---- optimizeRouteOrder ----

\* What optimizeRoute(coordinates) can resolve with, for every answer of the service.
optimizeRoute(coordinates) ==
    IF Len(coordinates) < 2 THEN {null}
    ELSE IF ~optKey THEN {basicOptimization(coordinates)}
    ELSE {basicOptimization(coordinates)}
         \cup {ServiceResult(coordinates, data) : data \in Payloads(Len(coordinates))}

\* startCoordinates ? result.orderedStops.slice(1).map(i => i - 1) : result.orderedStops
OptimizedIndices(result, withStart) ==
    IF withStart
    THEN [i \in 1..(Len(result.orderedStops) - 1) |-> result.orderedStops[i + 1] - 1]
    ELSE result.orderedStops

\* optimizedIndices.map((originalIndex, newOrder) => ({ ...stops[originalIndex], order: newOrder }))
OptimizedStops(list, indices) ==
    [k \in 1..Len(indices) |-> Merge(list[indices[k] + 1], [order |-> k - 1])]

OptimizeRouteOrder(withStart, startCoordinates) ==
    /\ currentRoute # null
    /\ Len(stops) >= 2
    /\ LET coordinates == [i \in 1..Len(stops) |-> stops[i].coordinates]
           allCoordinates == IF withStart THEN <<startCoordinates>> \o coordinates
                             ELSE coordinates
       IN  \E result \in optimizeRoute(allCoordinates) :
              LET optimizedStops == OptimizedStops(stops, OptimizedIndices(result, withStart))
                  totals == [totalDistance |-> result.totalDistance,
                             totalDuration |-> result.totalDuration]
              IN  /\ dbStops' = DbUpdateOrders(dbStops, optimizedStops, 1)
                  /\ dbRoutes' = DbUpdate(dbRoutes, currentRoute.id, totals)
                  /\ stops' = optimizedStops
                  /\ currentRoute' = Merge(currentRoute, totals)
    /\ isOptimizing' = FALSE
    /\ routeError' = "none"
    /\ UNCHANGED <<outsideRoute, syncQueue,
                   currentStopIndex, isLoading, createCalls, nextId, now>>

PlanInit ==
    /\ StoreInit
    /\ optIn = <<>>
    /\ optKey \in BOOLEAN
    /\ optPc = "idle"
    /\ optResp = "none"
    /\ optData = NoData
    /\ optOut = null

\* One createRoute call at a time, with the calls that plan the stops of a route.
PlanNext ==
    \/ \E u \in Users, d \in Dates : CreateRouteBegin(1, u, d)
    \/ CreateRouteQueried(1)
    \/ CreateRouteExisting(1)
    \/ CreateRouteAdded(1)
    \/ CreateRouteSet(1)
    \/ \E p \in Coordinates : AddStop(p)
    \/ \E i \in 1..Len(stops) : RemoveStop(stops[i].id)
    \/ \E i, j \in 0..(Len(stops) - 1) : ReorderStops(i, j)
    \/ \E withStart \in BOOLEAN, p \in Coordinates : OptimizeRouteOrder(withStart, p)

Spec == PlanInit /\ [][PlanNext]_vars

\* ---- running a route: updateRouteStatus, updateStopStatus, markStopArrived,
\* ---- markStopDeparted, setCurrentStopIndex, goToNextStop ----

RouteStatuses == {"planning", "active", "completed", "cancelled"}
StopStatuses == {"pending", "in_progress", "completed", "skipped"}

\* stops.map(s => s.id === stopId ? { ...s, ...changes } : s)
MapStop(list, stopId, changes) ==
    [i \in 1..Len(list) |-> IF list[i].id = stopId THEN Merge(list[i], changes) ELSE list[i]]

\* if (status === 'active' && !currentRoute.startedAt) updates.startedAt = new Date()
StartedAtUpdate(route, status) ==
    IF status = "active" /\ route.startedAt = undefined
    THEN [startedAt |-> Date(now)] ELSE <<>>

\* if (status === 'completed') updates.completedAt = new Date()
CompletedAtUpdate(status) ==
    IF status = "completed" THEN [completedAt |-> Date(now)] ELSE <<>>

UpdateRouteStatus(status) ==
    /\ currentRoute # null
    /\ LET updates == [status |-> status] @@ StartedAtUpdate(currentRoute, status)
                      @@ CompletedAtUpdate(status)
       IN  /\ dbRoutes' = DbUpdate(dbRoutes, currentRoute.id, updates)
           /\ currentRoute' = Merge(currentRoute, updates)
    /\ syncQueue' = addToSyncQueue(syncQueue, "update", "route", currentRoute.id)
    /\ UNCHANGED <<outsideRoute,
                   dbStops, stops, currentStopIndex, isLoading, isOptimizing,
                   routeError, createCalls, nextId, now>>

UpdateStopStatus(stopId, status) ==
    /\ dbStops' = DbUpdate(dbStops, stopId, [status |-> status])
    /\ stops' = MapStop(stops, stopId, [status |-> status])
    /\ syncQueue' = addToSyncQueue(syncQueue, "update", "stop", stopId)
    /\ UNCHANGED <<outsideRoute, dbRoutes, currentRoute, currentStopIndex, isLoading,
                   isOptimizing, routeError, createCalls, nextId, now>>

MarkStopArrived(stopId) ==
    /\ dbStops' = DbUpdate(dbStops, stopId, [status |-> "in_progress", arrivedAt |-> Date(now)])
    /\ stops' = MapStop(stops, stopId, [status |-> "in_progress", arrivedAt |-> Date(now)])
    /\ syncQueue' = addToSyncQueue(syncQueue, "update", "stop", stopId)
    /\ UNCHANGED <<outsideRoute, dbRoutes, currentRoute, currentStopIndex, isLoading,
                   isOptimizing, routeError, createCalls, nextId, now>>

MarkStopDeparted(stopId) ==
    /\ dbStops' = DbUpdate(dbStops, stopId, [status |-> "completed", departedAt |-> Date(now)])
    /\ stops' = MapStop(stops, stopId, [status |-> "completed", departedAt |-> Date(now)])
    /\ syncQueue' = addToSyncQueue(syncQueue, "update", "stop", stopId)
    /\ UNCHANGED <<outsideRoute, dbRoutes, currentRoute, currentStopIndex, isLoading,
                   isOptimizing, routeError, createCalls, nextId, now>>

SetCurrentStopIndex(index) ==
    /\ currentStopIndex' = index
    /\ UNCHANGED <<outsideRoute, syncQueue,
                   dbVars, currentRoute, stops, isLoading, isOptimizing,
                   routeError, createCalls, nextId, now>>

Min(a, b) == IF a <= b THEN a ELSE b

GoToNextStop ==
    /\ currentStopIndex' = Min(currentStopIndex + 1, Len(stops) - 1)
    /\ UNCHANGED <<outsideRoute, syncQueue,
                   dbVars, currentRoute, stops, isLoading, isOptimizing,
                   routeError, createCalls, nextId, now>>

\* time passes between two calls
Tick ==
    /\ now < MaxClock
    /\ now' = now + 1
    /\ UNCHANGED <<outsideRoute, syncQueue, dbVars, routeStoreVars, createCalls, nextId>>

\* The store as createRoute("u1", "d1") leaves it for a user who had no route for
\* that date: the new route is stored and current, no stop yet.
RouteOfTheDay ==
    /\ LateInit
    /\ ReportStoreInit
    /\ QuestionStoreInit
    /\ GeoInit
    /\ optIn = <<>>
    /\ optKey = FALSE
    /\ optPc = "idle"
    /\ optResp = "none"
    /\ optData = NoData
    /\ optOut = null
    /\ dbRoutes = {NewRoute(1, "u1", "d1")}
    /\ dbStops = {}
    /\ currentRoute = NewRoute(1, "u1", "d1")
    /\ stops = <<>>
    /\ currentStopIndex = 0
    /\ isLoading = FALSE
    /\ isOptimizing = FALSE
    /\ routeError = "none"
    /\ createCalls = [c \in Callers |-> IdleCall]
    /\ nextId = 2
    /\ now = 1

VisitInit ==
    /\ RouteOfTheDay
    /\ NoSummary

\* Stops are added at one place, then the route is run.
VisitNext ==
    \/ AddStop(0)
    \/ \E status \in RouteStatuses : UpdateRouteStatus(status)
    \/ \E i \in 1..Len(stops), status \in StopStatuses : UpdateStopStatus(stops[i].id, status)
    \/ \E i \in 1..Len(stops) : MarkStopArrived(stops[i].id)
    \/ \E i \in 1..Len(stops) : MarkStopDeparted(stops[i].id)
    \/ \E i \in 0..(Len(stops) - 1) : SetCurrentStopIndex(i)
    \/ GoToNextStop
    \/ Tick

SpecVisit == VisitInit /\ [][VisitNext]_vars

\* ---- loadRoute, loadTodayRoute: each call run to its end ----

LoadRoute(routeId) ==
    /\ IF {r \in dbRoutes : r.id = routeId} = {}
       THEN /\ routeError' = "Route not found"
            /\ UNCHANGED <<currentRoute, stops, currentStopIndex>>
       ELSE /\ currentRoute' = CHOOSE r \in dbRoutes : r.id = routeId
            /\ stops' = getRouteStops(routeId)
            /\ currentStopIndex' =
                  OrZero(findIndexByStatus(getRouteStops(routeId), {"pending", "in_progress"}))
            /\ routeError' = "none"
    /\ isLoading' = FALSE
    /\ UNCHANGED <<outsideRoute, syncQueue, dbVars, isOptimizing, createCalls, nextId, now>>

\* today is the date "d1"
LoadTodayRoute(userId) ==
    /\ IF RoutesOn(userId, "d1") = {}
       THEN /\ currentRoute' = null
            /\ stops' = <<>>
            /\ UNCHANGED currentStopIndex
       ELSE LET route == FirstRoute(RoutesOn(userId, "d1"))
            IN  /\ currentRoute' = route
                /\ stops' = getRouteStops(route.id)
                /\ currentStopIndex' =
                      OrZero(findIndexByStatus(getRouteStops(route.id),
                                               {"pending", "in_progress"}))
    /\ isLoading' = FALSE
    /\ routeError' = "none"
    /\ UNCHANGED <<outsideRoute, syncQueue, dbVars, isOptimizing, createCalls, nextId, now>>

\* A route is opened again while its stops are run and removed.
LoadNext ==
    \/ \E d \in Dates : CreateRouteBegin(1, "u1", d)
    \/ CreateRouteQueried(1)
    \/ CreateRouteExisting(1)
    \/ CreateRouteAdded(1)
    \/ CreateRouteSet(1)
    \/ \E routeId \in 1..MaxIds : LoadRoute(routeId)
    \/ \E u \in {"u1", "u2"} : LoadTodayRoute(u)
    \/ AddStop(0)
    \/ \E i \in 1..Len(stops) : RemoveStop(stops[i].id)
    \/ \E i \in 1..Len(stops) : MarkStopDeparted(stops[i].id)
    \/ \E i \in 1..Len(stops) : UpdateStopStatus(stops[i].id, "skipped")
    \/ GoToNextStop

SpecLoad == VisitInit /\ [][LoadNext]_vars

(***************************************************************************)
(* addStop and optimizeRouteOrder calls that overlap (DaySetup's handlers  *)
(* each await the store action, and nothing keeps the user from starting   *)
(* the next one before the last has resolved).  Each call reads            *)
(* currentRoute and stops once, when it starts, and writes the list it     *)
(* built from that reading when its last await resolves.                   *)
(***************************************************************************)
\* const { currentRoute, stops } = get(); newStop is built; db.stops.add is issued
AddStopBegin(c, coordinates) ==
    /\ stopCalls[c].pc = "idle"
    /\ currentRoute # null
    /\ nextId <= MaxStopIds
    /\ stopCalls' = [stopCalls EXCEPT ![c] =
                        [pc |-> "add", currentRoute |-> currentRoute, stops |-> stops,
                         newStop |-> NewStop(nextId, currentRoute.id, coordinates,
                                             Len(stops))]]
    /\ nextId' = nextId + 1
    /\ UNCHANGED <<optVars, templateVars, authVars, hookVars, reportVars, responseVars,
                   helperVars, syncQueue, dbVars, routeStoreVars, createCalls, now>>

\* db.stops.add(newStop) commits and addToSyncQueue stores its item
AddStopAdded(c) ==
    /\ stopCalls[c].pc = "add"
    /\ dbStops' = dbStops \cup {stopCalls[c].newStop}
    /\ syncQueue' = addToSyncQueue(syncQueue, "create", "stop", stopCalls[c].newStop.id)
    /\ stopCalls' = [stopCalls EXCEPT ![c].pc = "set"]
    /\ UNCHANGED <<optVars, templateVars, authVars, hookVars, reportVars, responseVars,
                   helperVars, dbRoutes, routeStoreVars, createCalls, nextId, now>>

\* addToSyncQueue resolves: set({ stops: [...stops, newStop] }), with the stops
\* read when the call started
AddStopSet(c) ==
    /\ stopCalls[c].pc = "set"
    /\ stops' = Append(stopCalls[c].stops, stopCalls[c].newStop)
    /\ stopCalls' = [stopCalls EXCEPT ![c] = IdleStopCall]
    /\ UNCHANGED <<optVars, templateVars, authVars, hookVars, reportVars, responseVars,
                   helperVars, syncQueue, dbVars, currentRoute, currentStopIndex, isLoading,
                   isOptimizing, routeError, createCalls, nextId, now>>

\* const { currentRoute, stops } = get(); set({ isOptimizing: true, error: null });
\* optimizeRoute(allCoordinates) is awaited
OptimizeRouteOrderBegin(c) ==
    /\ stopCalls[c].pc = "idle"
    /\ currentRoute # null
    /\ Len(stops) >= 2
    /\ isOptimizing' = TRUE
    /\ routeError' = "none"
    /\ stopCalls' = [stopCalls EXCEPT ![c] =
                        [pc |-> "optimize", currentRoute |-> currentRoute, stops |-> stops,
                         newStop |-> null]]
    /\ UNCHANGED <<optVars, templateVars, authVars, hookVars, reportVars, responseVars,
                   helperVars, syncQueue, dbVars, currentRoute, stops, currentStopIndex,
                   isLoading, createCalls, nextId, now>>

\* optimizeRoute resolves: the orders and the totals are written to the tables
\* and set({ stops: optimizedStops, currentRoute: {...}, isOptimizing: false })
OptimizeRouteOrderEnd(c) ==
    /\ stopCalls[c].pc = "optimize"
    /\ LET read == stopCalls[c]
           coordinates == [i \in 1..Len(read.stops) |-> read.stops[i].coordinates]
       IN  \E result \in optimizeRoute(coordinates) :
              LET optimizedStops == OptimizedStops(read.stops,
                                                   OptimizedIndices(result, FALSE))
                  totals == [totalDistance |-> result.totalDistance,
                             totalDuration |-> result.totalDuration]
              IN  /\ dbStops' = DbUpdateOrders(dbStops, optimizedStops, 1)
                  /\ dbRoutes' = DbUpdate(dbRoutes, read.currentRoute.id, totals)
                  /\ stops' = optimizedStops
                  /\ currentRoute' = Merge(read.currentRoute, totals)
    /\ isOptimizing' = FALSE
    /\ stopCalls' = [stopCalls EXCEPT ![c] = IdleStopCall]
    /\ UNCHANGED <<optVars, templateVars, authVars, hookVars, reportVars, responseVars,
                   helperVars, syncQueue, currentStopIndex, isLoading, routeError,
                   createCalls, nextId, now>>

OverlapNext ==
    \E c \in Callers :
        \/ AddStopBegin(c, 0)
        \/ AddStopAdded(c)
        \/ AddStopSet(c)
        \/ OptimizeRouteOrderBegin(c)
        \/ OptimizeRouteOrderEnd(c)

SpecOverlap == VisitInit /\ [][OverlapNext]_vars

(***************************************************************************)
(* useAuthStore (stores/authStore.ts).  A user is the record of its id,    *)
(* name, passcode (hashed) and role; a session is the record of its userId *)
(* and expiresAt.  The clock counts in units of seven days.  createUser,   *)
(* login and logout are each one call run to its end; checkSession is      *)
(* split at its await of db.users.get.  isLoading and error are left out.  *)
(***************************************************************************)
SevenDays == 1
Passcodes == {"1234", "0000"}

\* hashPasscode(passcode): the SHA-256 digest of passcode + 'today-app-salt',
\* written as the string that was digested
hashPasscode(passcode) == <<"SHA-256", passcode, "today-app-salt">>

\* the defaultQuestions of initializeDefaultQuestions, in their order
DefaultQuestions ==
    << [text |-> "Contact Name", type |-> "text"],
       [text |-> "Was anyone present?", type |-> "yesNo"],
       [text |-> "Visit outcome", type |-> "multipleChoice"],
       [text |-> "Any issues found?", type |-> "yesNo"],
       [text |-> "Issue description", type |-> "text"],
       [text |-> "Photo documentation", type |-> "photo"],
       [text |-> "Customer satisfaction", type |-> "rating"],
       [text |-> "Follow-up needed?", type |-> "yesNo"],
       [text |-> "Customer signature", type |-> "signature"],
       [text |-> "Additional notes", type |-> "text"] >>

\* initializeDefaultQuestions(userId): table questionTemplates afterwards, the
\* new templates taking the ids that follow firstId
initializeDefaultQuestions(table, userId, firstId) ==
    IF \E t \in table : t.userId = userId /\ t.isDefault THEN table
    ELSE table \cup {[id |-> firstId + k, userId |-> userId,
                      text |-> DefaultQuestions[k].text, type |-> DefaultQuestions[k].type,
                      isDefault |-> TRUE, isActive |-> TRUE, order |-> k,
                      updatedAt |-> Date(now)] : k \in 1..Len(DefaultQuestions)}

NewSession(userId) == [userId |-> userId, expiresAt |-> now + SevenDays]

\* the frame of the auth store's actions
outsideAuth ==
    <<optVars, helperVars, dbVars, routeStoreVars, createCalls, reportVars, responseVars,
      templates, stopCalls, hookVars, syncQueue>>

CreateUser(name, passcode, role) ==
    /\ Cardinality(dbUsers) < MaxUsers
    /\ LET newUser == [id |-> nextId, name |-> name, passcode |-> hashPasscode(passcode),
                       role |-> role]
       IN  /\ dbUsers' = dbUsers \cup {newUser}
           /\ dbTemplates' = initializeDefaultQuestions(dbTemplates, newUser.id, nextId)
           /\ user' = newUser
           /\ session' = NewSession(newUser.id)
           /\ isAuthenticated' = TRUE
    /\ nextId' = nextId + 1 + Len(DefaultQuestions)
    /\ UNCHANGED <<outsideAuth, authCalls, now>>

\* login(passcode): users.find(u => u.passcode === hashedPasscode) over
\* db.users.toArray(), which is in primary-key order
Login(passcode) ==
    LET found == {u \in dbUsers : u.passcode = hashPasscode(passcode)}
    IN  /\ IF found = {}
           THEN /\ isAuthenticated' = FALSE
                /\ UNCHANGED <<user, session>>
           ELSE /\ user' = CHOOSE u \in found : \A v \in found : u.id <= v.id
                /\ session' = NewSession(user'.id)
                /\ isAuthenticated' = TRUE
        /\ UNCHANGED <<outsideAuth, dbUsers, dbTemplates, authCalls, nextId, now>>

Logout ==
    /\ user' = null
    /\ session' = null
    /\ isAuthenticated' = FALSE
    /\ UNCHANGED <<outsideAuth, dbUsers, dbTemplates, authCalls, nextId, now>>

\* checkSession up to its await: const { session } = get(), the two early
\* returns, db.users.get(session.userId) issued
CheckSessionBegin(c) ==
    /\ authCalls[c].pc = "idle"
    /\ IF session = null
       THEN /\ isAuthenticated' = FALSE
            /\ UNCHANGED <<user, session, authCalls>>
       ELSE IF session.expiresAt < now
       THEN /\ user' = null
            /\ session' = null
            /\ isAuthenticated' = FALSE
            /\ UNCHANGED authCalls
       ELSE /\ authCalls' = [authCalls EXCEPT ![c] = [pc |-> "get", session |-> session]]
            /\ UNCHANGED <<user, session, isAuthenticated>>
    /\ UNCHANGED <<outsideAuth, dbUsers, dbTemplates, nextId, now>>

\* db.users.get(session.userId) resolves
CheckSessionResolved(c) ==
    /\ authCalls[c].pc = "get"
    /\ LET found == {u \in dbUsers : u.id = authCalls[c].session.userId}
       IN  IF found = {}
           THEN /\ user' = null
                /\ session' = null
                /\ isAuthenticated' = FALSE
           ELSE /\ user' = CHOOSE u \in found : TRUE
                /\ isAuthenticated' = TRUE
                /\ UNCHANGED session
    /\ authCalls' = [authCalls EXCEPT ![c] = IdleAuthCall]
    /\ UNCHANGED <<outsideAuth, dbUsers, dbTemplates, nextId, now>>

\* db.users.get(session.userId) rejects: catch { set({ isAuthenticated: false }) }
CheckSessionFailed(c) ==
    /\ authCalls[c].pc = "get"
    /\ isAuthenticated' = FALSE
    /\ authCalls' = [authCalls EXCEPT ![c] = IdleAuthCall]
    /\ UNCHANGED <<outsideAuth, dbUsers, dbTemplates, user, session, nextId, now>>

\* The page is loaded again: the store is created anew and persist restores the
\* session, the only part of the state that partialize keeps; the calls of the
\* page that was left are gone.
Reload ==
    /\ user' = null
    /\ isAuthenticated' = FALSE
    /\ authCalls' = [c \in Callers |-> IdleAuthCall]
    /\ UNCHANGED <<outsideAuth, dbUsers, dbTemplates, session, nextId, now>>

AuthTick ==
    /\ now < MaxAuthClock
    /\ now' = now + 1
    /\ UNCHANGED <<outsideAuth, authVars, dbTemplates, nextId>>

AuthNext ==
    \/ \E passcode \in Passcodes : CreateUser("Ana", passcode, "rep")
    \/ \E passcode \in Passcodes : Login(passcode)
    \/ Logout
    \/ \E c \in Callers :
          \/ CheckSessionBegin(c)
          \/ CheckSessionResolved(c)
          \/ CheckSessionFailed(c)
    \/ Reload
    \/ AuthTick

SpecAuth == VisitInit /\ [][AuthNext]_vars

(***************************************************************************)
(* useDebouncedCallback (hooks/useDebounce.ts), as AddressInput uses it    *)
(* for searchDebounced.  The browser keeps the pending timeouts; a timeout *)
(* runs its function once, at or after its due time.  The handlers that    *)
(* call the debounced callback belong to the mounted component.            *)
(***************************************************************************)
delay == 3
Queries == {"ma", "mai"}

\* a clearTimeout that cancels nothing
clearTimeoutTooLate(table, id) == table

\* clearTimeout(id): the pending timeouts afterwards
clearTimeout(table, id) == {t \in table : t.id # id}

\* setTimeout(() => callbackRef.current(...args), ms), called at hookClock: the
\* pending timeouts afterwards
setTimeout(table, id, args, ms) ==
    table \cup {[id |-> id, due |-> hookClock + ms, args |-> args]}

\* the frame of the hook's actions
outsideHook ==
    <<optVars, helperVars, dbVars, routeStoreVars, createCalls, reportVars, responseVars,
      templateVars, stopCalls, authVars, syncQueue, nextId, now>>

\* debouncedCallback(...args)
DebouncedCallback(args) ==
    /\ mounted
    /\ Len(calls) < MaxDebouncedCalls
    /\ hookClock + delay <= MaxHookClock
    /\ LET id == Len(calls) + 1
           cleared == IF timeoutRef # <<>> THEN clearTimeout(timers, timeoutRef[1])
                      ELSE timers
       IN  /\ timers' = setTimeout(cleared, id, args, delay)
           /\ timeoutRef' = <<id>>
    /\ calls' = Append(calls, [args |-> args, at |-> hookClock])
    /\ UNCHANGED <<outsideHook, hookClock, mounted, invocations>>

\* a timeout runs: callbackRef.current(...args)
TimeoutRuns(t) ==
    /\ t \in timers
    /\ hookClock >= t.due
    /\ timers' = timers \ {t}
    /\ invocations' = Append(invocations, [args |-> t.args, at |-> hookClock,
                                           timer |-> t.id, mounted |-> mounted])
    /\ UNCHANGED <<outsideHook, hookClock, timeoutRef, mounted, calls>>

\* the component unmounts: the cleanup of the hook's effect
Unmount ==
    /\ mounted
    /\ mounted' = FALSE
    /\ timers' = IF timeoutRef # <<>> THEN clearTimeout(timers, timeoutRef[1]) ELSE timers
    /\ UNCHANGED <<outsideHook, hookClock, timeoutRef, calls, invocations>>

HookTick ==
    /\ hookClock < MaxHookClock
    /\ hookClock' = hookClock + 1
    /\ UNCHANGED <<outsideHook, timers, timeoutRef, mounted, calls, invocations>>

HookNext ==
    \/ \E args \in Queries : DebouncedCallback(args)
    \/ \E t \in timers : TimeoutRuns(t)
    \/ Unmount
    \/ HookTick

\* time passes, and the browser runs a timeout that is due
SpecHook ==
    /\ VisitInit
    /\ [][HookNext]_vars
    /\ WF_vars(HookTick)
    /\ WF_vars(\E t \in timers : TimeoutRuns(t))

\* createRoute calls that overlap (DaySetup's initRoute effect run again, or a second
\* tab, while an earlier call is still awaiting), and the stops added in between.
CreateNext ==
    \/ \E c \in Callers, u \in Users, d \in Dates : CreateRouteBegin(c, u, d)
    \/ \E c \in Callers : CreateRouteQueried(c)
    \/ \E c \in Callers : CreateRouteExisting(c)
    \/ \E c \in Callers : CreateRouteAdded(c)
    \/ \E c \in Callers : CreateRouteSet(c)
    \/ \E p \in Coordinates : AddStop(p)

SpecCreate == PlanInit /\ [][CreateNext]_vars

\* optimizeRoute called on its own: the stores stay as constructed
OptStoreInit ==
    /\ OptInit
    /\ StoreInit

SpecOpt == OptStoreInit /\ [][OptNext]_vars

(***************************************************************************)
(* useReportStore (pages/VisitForm.tsx): generateReport, one action per    *)
(* stretch between two awaits, and loadReportByRoute.                      *)
(***************************************************************************)
RouteIds == 1..2

ReportsOf(routeId) == {r \in dbReports : r.routeId = routeId}

\* .first() of a collection: the record with the lowest primary key
FirstReport(S) == CHOOSE r \in S : \A q \in S : r.id <= q.id

GetAnyRoute(routeId) == dbRoutes

\* db.routes.get(routeId): the records stored under that key (none or one)
GetRoute(routeId) == {r \in dbRoutes : r.id = routeId}

\* const report: DayReport = { id: crypto.randomUUID(), routeId, userId, date, ...,
\* generatedAt: new Date() }
NewReport(id, routeId, route) ==
    [id |-> id, routeId |-> routeId, userId |-> route.userId, date |-> route.date,
     generatedAt |-> Date(now)]

\* the changes of table.update(key, changes) that touch the stored record: the record
\* stays under its primary key
WithoutId(record) == [f \in DOMAIN record \ {"id"} |-> record[f]]

\* set({ isGenerating: true, error: null }); db.routes.get(routeId) is issued
GenerateReportBegin(c, routeId) ==
    /\ reportCalls[c].pc = "idle"
    /\ isGenerating' = TRUE
    /\ reportError' = "none"
    /\ reportCalls' = [reportCalls EXCEPT ![c] = [IdleReportCall EXCEPT !.pc = "route",
                                                                       !.routeId = routeId]]
    /\ UNCHANGED <<optVars, lateVars, syncQueue,
                   helperVars, dbVars, routeStoreVars, createCalls, dbReports, currentReport,
                   responseVars, nextId, now>>

\* if (!route) throw new Error('Route not found'): the catch block
GenerateReportNoRoute(c) ==
    /\ reportCalls[c].pc = "route"
    /\ GetRoute(reportCalls[c].routeId) = {}
    /\ reportError' = "Route not found"
    /\ isGenerating' = FALSE
    /\ reportCalls' = [reportCalls EXCEPT ![c] = IdleReportCall]
    /\ UNCHANGED <<optVars, lateVars, syncQueue,
                   helperVars, dbVars, routeStoreVars, createCalls, dbReports, currentReport,
                   responseVars, nextId, now>>

\* the route is read; its stops and responses are read and summarised, and
\* generateAIInsights is awaited
GenerateReportLoaded(c) ==
    /\ reportCalls[c].pc = "route"
    /\ \E r \in GetRoute(reportCalls[c].routeId) :
          reportCalls' = [reportCalls EXCEPT ![c].pc = "insights", ![c].route = r]
    /\ UNCHANGED <<optVars, lateVars, syncQueue,
                   helperVars, dbVars, routeStoreVars, createCalls, dbReports, currentReport,
                   isGenerating, reportError, responseVars, nextId, now>>

\* the insights resolve: the report is built under a fresh id and the
\* where({ routeId }).first() query is issued
GenerateReportBuilt(c) ==
    /\ reportCalls[c].pc = "insights"
    /\ nextId <= MaxIds
    /\ reportCalls' = [reportCalls EXCEPT ![c].pc = "existing",
                                          ![c].report = NewReport(nextId, reportCalls[c].routeId, reportCalls[c].route)]
    /\ nextId' = nextId + 1
    /\ UNCHANGED <<optVars, lateVars, syncQueue,
                   helperVars, dbVars, routeStoreVars, createCalls, dbReports, currentReport,
                   isGenerating, reportError, responseVars, now>>

\* the query resolves: db.dayReports.update or db.dayReports.add is issued
GenerateReportQueried(c) ==
    LET found == ReportsOf(reportCalls[c].routeId)
    IN  /\ reportCalls[c].pc = "existing"
        /\ reportCalls' = [reportCalls EXCEPT
                              ![c].pc = "write",
                              ![c].existingReport = IF found # {} THEN FirstReport(found)
                                                    ELSE null]
        /\ UNCHANGED <<optVars, lateVars, syncQueue,
                       helperVars, dbVars, routeStoreVars, createCalls, dbReports, currentReport,
                       isGenerating, reportError, responseVars, nextId, now>>

\* the write commits; report.id = existingReport.id after an update;
\* set({ currentReport: report, isGenerating: false })
GenerateReportWritten(c) ==
    LET call == reportCalls[c]
    IN  /\ call.pc = "write"
        /\ IF call.existingReport # null
           THEN /\ dbReports' = DbUpdate(dbReports, call.existingReport.id,
                                         WithoutId(call.report))
                /\ currentReport' = [call.report EXCEPT !.id = call.existingReport.id]
           ELSE /\ dbReports' = dbReports \cup {call.report}
                /\ currentReport' = call.report
        /\ isGenerating' = FALSE
        /\ reportCalls' = [reportCalls EXCEPT ![c] = IdleReportCall]
        /\ UNCHANGED <<optVars, lateVars, syncQueue,
                       helperVars, dbVars, routeStoreVars, createCalls, reportError,
                       responseVars, nextId, now>>

\* loadReportByRoute, run to its end
LoadReportByRoute(routeId) ==
    LET found == ReportsOf(routeId)
    IN  /\ currentReport' = IF found # {} THEN FirstReport(found) ELSE null
        /\ UNCHANGED <<optVars, lateVars, syncQueue,
                       helperVars, dbVars, routeStoreVars, createCalls, dbReports, isGenerating,
                       reportError, reportCalls, responseVars, nextId, now>>

\* generateReport calls for the route of the day and for a route that is not stored,
\* from two callers: the handler that completes the route and the Reports page.
ReportNext ==
    \/ \E c \in Callers, routeId \in RouteIds : GenerateReportBegin(c, routeId)
    \/ \E c \in Callers : GenerateReportNoRoute(c)
    \/ \E c \in Callers : GenerateReportLoaded(c)
    \/ \E c \in Callers : GenerateReportBuilt(c)
    \/ \E c \in Callers : GenerateReportQueried(c)
    \/ \E c \in Callers : GenerateReportWritten(c)
    \/ \E routeId \in RouteIds : LoadReportByRoute(routeId)
    \/ UpdateRouteStatus("completed")
    \/ Tick

SpecReport == VisitInit /\ [][ReportNext]_vars

(***************************************************************************)
(* useQuestionStore (stores/questionStore.ts): loadResponses,              *)
(* saveResponse with the updateResponse it calls, clearResponses; each     *)
(* call run to its end.                                                    *)
(***************************************************************************)
StopIds == 1..2
QuestionIds == {"q1", "q2"}
Values == {"yes", "no"}

\* currentResponses.find(r => r.stopId === stopId && r.questionId === questionId):
\* the 1-based position of the first match, 0 when there is none
FindResponse(list, stopId, questionId) ==
    IF \E i \in 1..Len(list) : list[i].stopId = stopId /\ list[i].questionId = questionId
    THEN CHOOSE i \in 1..Len(list) :
            /\ list[i].stopId = stopId /\ list[i].questionId = questionId
            /\ \A j \in 1..(i - 1) : ~(list[j].stopId = stopId /\ list[j].questionId = questionId)
    ELSE 0

\* .where({ stopId }).toArray(): in primary-key order
RECURSIVE ToArray(_)
ToArray(S) ==
    IF S = {} THEN <<>>
    ELSE LET r == CHOOSE x \in S : \A y \in S : x.id <= y.id
         IN  <<r>> \o ToArray(S \ {r})

LoadResponses(stopId) ==
    /\ currentResponses' = ToArray({r \in dbResponses : r.stopId = stopId})
    /\ UNCHANGED <<optVars, lateVars, syncQueue,
                   helperVars, dbVars, routeStoreVars, createCalls, reportVars, dbResponses,
                   nextId, now>>

ClearResponses ==
    /\ currentResponses' = <<>>
    /\ UNCHANGED <<optVars, lateVars, syncQueue,
                   helperVars, dbVars, routeStoreVars, createCalls, reportVars, dbResponses,
                   nextId, now>>

\* updates that also overwrite the type
ResponseUpdatesWithType(value, imageData) ==
    [value |-> value, imageData |-> imageData, timestamp |-> Date(now), type |-> "text"]

\* const updates = { value, imageData, timestamp: new Date() }
ResponseUpdates(value, imageData) ==
    [value |-> value, imageData |-> imageData, timestamp |-> Date(now)]

\* updateResponse(responseId, value, imageData): the table, the sync queue and
\* the in-memory list
UpdateResponse(responseId, value, imageData) ==
    LET updates == ResponseUpdates(value, imageData)
    IN  /\ dbResponses' = DbUpdate(dbResponses, responseId, updates)
        /\ syncQueue' = addToSyncQueue(syncQueue, "update", "response", responseId)
        /\ currentResponses' = [i \in 1..Len(currentResponses) |->
                                   IF currentResponses[i].id = responseId
                                   THEN Merge(currentResponses[i], updates)
                                   ELSE currentResponses[i]]

SaveResponse(stopId, questionId, questionText, type, value, imageData) ==
    LET existing == FindResponse(currentResponses, stopId, questionId)
    IN  /\ IF existing # 0
           THEN /\ UpdateResponse(currentResponses[existing].id, value, imageData)
                /\ UNCHANGED nextId
           ELSE /\ nextId <= MaxIds
                /\ LET newResponse == [id |-> nextId, stopId |-> stopId,
                                       questionId |-> questionId,
                                       questionText |-> questionText, type |-> type,
                                       value |-> value, imageData |-> imageData,
                                       timestamp |-> Date(now)]
                   IN  /\ dbResponses' = dbResponses \cup {newResponse}
                       /\ syncQueue' = addToSyncQueue(syncQueue, "create", "response",
                                                      newResponse.id)
                       /\ currentResponses' = Append(currentResponses, newResponse)
                /\ nextId' = nextId + 1
        /\ UNCHANGED <<optVars, lateVars, helperVars, dbVars, routeStoreVars, createCalls,
                       reportVars, now>>

ResponseNext ==
    \/ \E stopId \in StopIds : LoadResponses(stopId)
    \/ ClearResponses
    \/ \E stopId \in StopIds, questionId \in QuestionIds, value \in Values :
          SaveResponse(stopId, questionId, "Any issues found?", "yesNo", value, undefined)
    \/ Tick

SpecResponse == VisitInit /\ [][ResponseNext]_vars

(***************************************************************************)
(* useQuestionStore's templates (stores/questionStore.ts).  A template is  *)
(* the record of its id, userId, text, type, isDefault, isActive, order    *)
(* and updatedAt; each action is one call run to its end.                  *)
(***************************************************************************)
TemplateTexts == {"Any issues found?", "Issue description"}
TemplateTypes == {"yesNo", "text"}
ImageData == {undefined, <<"data:image/png">>}

\* the frame of the question store's actions
outsideQuestion ==
    <<optVars, helperVars, dbVars, routeStoreVars, createCalls, reportVars, stopCalls,
      authVars, hookVars>>

\* getActiveQuestions(userId)
LoadTemplates(userId) ==
    /\ templates' = SortByOrder({t \in dbTemplates : t.userId = userId /\ t.isActive})
    /\ UNCHANGED <<outsideQuestion, responseVars, dbTemplates, syncQueue, nextId, now>>

CreateTemplate(userId, text, type) ==
    /\ nextId <= MaxIds
    /\ LET newTemplate == [id |-> nextId, userId |-> userId, text |-> text, type |-> type,
                           isDefault |-> FALSE, isActive |-> TRUE, order |-> Len(templates),
                           updatedAt |-> Date(now)]
       IN  /\ dbTemplates' = dbTemplates \cup {newTemplate}
           /\ syncQueue' = addToSyncQueue(syncQueue, "create", "question", newTemplate.id)
           /\ templates' = Append(templates, newTemplate)
    /\ nextId' = nextId + 1
    /\ UNCHANGED <<outsideQuestion, responseVars, now>>

UpdateTemplate(templateId, updates) ==
    LET updatedData == updates @@ [updatedAt |-> Date(now)]
    IN  /\ dbTemplates' = DbUpdate(dbTemplates, templateId, updatedData)
        /\ syncQueue' = addToSyncQueue(syncQueue, "update", "question", templateId)
        /\ templates' = [i \in 1..Len(templates) |->
                            IF templates[i].id = templateId
                            THEN Merge(templates[i], updatedData)
                            ELSE templates[i]]
        /\ UNCHANGED <<outsideQuestion, responseVars, nextId, now>>

\* templates.filter(t => t.id !== templateId).map((t, index) => ({ ...t, order: index }))
WithoutTemplate(list, templateId) ==
    LET kept == SelectSeq(list, LAMBDA t : t.id # templateId)
    IN  [i \in 1..Len(kept) |-> Merge(kept[i], [order |-> i - 1])]

\* Promise.all(list.map(t => db.questionTemplates.update(t.id, { order: t.order,
\* updatedAt: new Date() })))
DbUpdateTemplateOrders(table, list) ==
    {IF \E i \in 1..Len(list) : list[i].id = r.id
     THEN Merge(r, [order |-> (CHOOSE t \in {list[i] : i \in 1..Len(list)} : t.id = r.id).order,
                    updatedAt |-> Date(now)])
     ELSE r : r \in table}

DeleteTemplate(templateId) ==
    LET updatedTemplates == WithoutTemplate(templates, templateId)
    IN  /\ dbTemplates' = DbUpdateTemplateOrders({t \in dbTemplates : t.id # templateId},
                                                 updatedTemplates)
        /\ syncQueue' = addToSyncQueue(syncQueue, "delete", "question", templateId)
        /\ templates' = updatedTemplates
        /\ UNCHANGED <<outsideQuestion, responseVars, nextId, now>>

\* reorderTemplates(templateIds), every id being the id of a template of the list
ReorderTemplates(templateIds) ==
    LET reorderedTemplates ==
            [i \in 1..Len(templateIds) |->
                Merge(CHOOSE t \in {templates[j] : j \in 1..Len(templates)} :
                          t.id = templateIds[i],
                      [order |-> i - 1, updatedAt |-> Date(now)])]
    IN  /\ dbTemplates' = DbUpdateTemplateOrders(dbTemplates, reorderedTemplates)
        /\ templates' = reorderedTemplates
        /\ UNCHANGED <<outsideQuestion, responseVars, syncQueue, nextId, now>>

ToggleTemplateActive(templateId) ==
    /\ IF \A i \in 1..Len(templates) : templates[i].id # templateId
       THEN UNCHANGED <<dbTemplates, syncQueue, templates>>
       ELSE LET template == CHOOSE t \in {templates[i] : i \in 1..Len(templates)} :
                                t.id = templateId
                changes == [isActive |-> ~template.isActive, updatedAt |-> Date(now)]
            IN  /\ dbTemplates' = DbUpdate(dbTemplates, templateId, changes)
                /\ syncQueue' = addToSyncQueue(syncQueue, "update", "question", templateId)
                /\ templates' = [i \in 1..Len(templates) |->
                                    IF templates[i].id = templateId
                                    THEN Merge(templates[i], changes)
                                    ELSE templates[i]]
    /\ UNCHANGED <<outsideQuestion, responseVars, nextId, now>>

DeleteResponse(responseId) ==
    /\ dbResponses' = {r \in dbResponses : r.id # responseId}
    /\ syncQueue' = addToSyncQueue(syncQueue, "delete", "response", responseId)
    /\ currentResponses' = SelectSeq(currentResponses, LAMBDA r : r.id # responseId)
    /\ UNCHANGED <<outsideQuestion, templateVars, nextId, now>>

\* The Questions page edits the templates; VisitForm's handleSave saves the answer
\* to a question of the active templates, with the text and type the template has.
QuestionNext ==
    \/ LoadTemplates("u1")
    \/ \E text \in TemplateTexts, type \in TemplateTypes : CreateTemplate("u1", text, type)
    \/ \E t \in dbTemplates :
          \/ \E text \in TemplateTexts : UpdateTemplate(t.id, [text |-> text])
          \/ \E type \in TemplateTypes : UpdateTemplate(t.id, [type |-> type])
          \/ DeleteTemplate(t.id)
          \/ ToggleTemplateActive(t.id)
    \/ \E templateIds \in SeqsUpTo({t.id : t \in dbTemplates}, MaxIds) :
          /\ Len(templateIds) = Len(templates)
          /\ \A i \in 1..Len(templates) : \E j \in 1..Len(templateIds) :
                 templateIds[j] = templates[i].id
          /\ ReorderTemplates(templateIds)
    \/ \E i \in 1..Len(templates), value \in Values, imageData \in ImageData :
          /\ templates[i].isActive
          /\ SaveResponse(1, templates[i].id, templates[i].text, templates[i].type,
                          value, imageData)
    \/ \E r \in dbResponses, value \in Values :
          /\ UpdateResponse(r.id, value, undefined)
          /\ UNCHANGED <<optVars, lateVars, helperVars, dbVars, routeStoreVars, createCalls,
                         reportVars, nextId, now>>
    \/ \E r \in dbResponses : DeleteResponse(r.id)
    \/ LoadResponses(1)

SpecQuestion == VisitInit /\ [][QuestionNext]_vars

(***************************************************************************)
(* services/geocodeService.ts: rateLimitedFetch.  A call reads the clock   *)
(* and lastRequestTime, sleeps for the rest of the interval when it is     *)
(* early, then writes lastRequestTime and calls fetch.  A timer never      *)
(* fires early; it may fire late.                                          *)
(***************************************************************************)
\* the call starts: now - lastRequestTime is compared with the interval
RateLimitedFetchBegin(c) ==
    LET timeSinceLastRequest == geoClock - lastRequestTime
    IN  /\ geoCalls[c].pc = "idle"
        /\ Len(geoSent) + Cardinality({d \in Callers : geoCalls[d].pc = "waiting"}) < MaxRequests
        /\ IF timeSinceLastRequest < MIN_REQUEST_INTERVAL
           THEN /\ geoCalls' = [geoCalls EXCEPT ![c] =
                                   [pc |-> "waiting",
                                    wakeAt |-> geoClock + (MIN_REQUEST_INTERVAL
                                                           - timeSinceLastRequest)]]
                /\ UNCHANGED <<lastRequestTime, geoSent>>
           ELSE /\ lastRequestTime' = geoClock
                /\ geoSent' = Append(geoSent, geoClock)
                /\ UNCHANGED geoCalls
        /\ UNCHANGED <<optVars, lateVars, syncQueue,
                       dbVars, routeStoreVars, createCalls, reportVars, responseVars,
                       summaryVars, geoClock, nextId, now>>

\* the timer fires: lastRequestTime = Date.now(); fetch(url)
RateLimitedFetchResume(c) ==
    /\ geoCalls[c].pc = "waiting"
    /\ geoClock >= geoCalls[c].wakeAt
    /\ lastRequestTime' = geoClock
    /\ geoSent' = Append(geoSent, geoClock)
    /\ geoCalls' = [geoCalls EXCEPT ![c] = IdleGeoCall]
    /\ UNCHANGED <<optVars, lateVars, syncQueue,
                   dbVars, routeStoreVars, createCalls, reportVars, responseVars,
                   summaryVars, geoClock, nextId, now>>

GeoTick ==
    /\ geoClock < GeoStart + MaxGeoTicks * GeoTickMs
    /\ geoClock' = geoClock + GeoTickMs
    /\ UNCHANGED <<optVars, lateVars, syncQueue,
                   dbVars, routeStoreVars, createCalls, reportVars, responseVars,
                   summaryVars, lastRequestTime, geoCalls, geoSent, nextId, now>>

GeoNext ==
    \/ \E c \in Callers : RateLimitedFetchBegin(c)
    \/ \E c \in Callers : RateLimitedFetchResume(c)
    \/ GeoTick

SpecGeo == VisitInit /\ [][GeoNext]_vars

\* C12: any two requests sent through rateLimitedFetch are at least one second apart.
C12_RequestsOneSecondApart ==
    \A i \in 1..Len(geoSent) : \A j \in 1..Len(geoSent) :
        i < j => geoSent[j] - geoSent[i] >= OneSecond

(***************************************************************************)
(* The report helpers of pages/VisitForm.tsx: calculateTimeSpent,          *)
(* calculateSummary, calculateTrends, calculateFlaggedIssues.  They are    *)
(* pure; a call is one action that takes its arguments from sumIn and      *)
(* leaves its value in sumOut.  Timestamps are milliseconds.               *)
(***************************************************************************)
MsPerMinute == 60000

MathRoundDown(num, den) == num \div den

\* Math.round(num / den) for den > 0: the nearest integer, a half rounded up
MathRound(num, den) == (2 * num + den) \div (2 * den)

\* new Date(x).getTime()
getTime(date) == date[1]

calculateTimeSpent(stop) ==
    IF stop.arrivedAt = undefined \/ stop.departedAt = undefined THEN 0
    ELSE MathRound(getTime(stop.departedAt) - getTime(stop.arrivedAt), MsPerMinute)

\* Timestamps of a day's visit: on and around the half minute, and 17 minutes.
TimeSamples == {0, 29999, 30000, 45000, 60000, 89999, 90000, 1020000, 1049999, 1050000}

OptionalDates == {undefined} \cup {Date(t) : t \in TimeSamples}

TimeSpentInit ==
    /\ RouteOfTheDay
    /\ sumIn \in {[fn |-> "calculateTimeSpent", arrivedAt |-> a, departedAt |-> d] :
                     a \in OptionalDates, d \in OptionalDates}
    /\ sumOut = null

CallCalculateTimeSpent ==
    /\ sumOut = null
    /\ sumOut' = [value |-> calculateTimeSpent(sumIn)]
    /\ UNCHANGED <<optVars, lateVars, syncQueue,
                   dbVars, routeStoreVars, createCalls, reportVars, responseVars,
                   geoVars, sumIn, nextId, now>>

SpecTimeSpent == TimeSpentInit /\ [][CallCalculateTimeSpent]_vars

\* C13: per-stop time spent is (departedAt - arrivedAt) in minutes rounded to the
\* nearest integer, and 0 whenever arrivedAt or departedAt is missing; 17 minutes
\* give 17.
C13_TimeSpent ==
    sumOut # null =>
        IF sumIn.arrivedAt = undefined \/ sumIn.departedAt = undefined
        THEN sumOut.value = 0
        ELSE LET elapsed == sumIn.departedAt[1] - sumIn.arrivedAt[1]
             IN  /\ 2 * Abs(sumOut.value * MsPerMinute - elapsed) <= MsPerMinute
                 /\ elapsed = 17 * MsPerMinute => sumOut.value = 17

\* A stay that is not a whole number of minutes and rounds up.
C13_Witness ==
    /\ sumOut # null
    /\ sumIn.arrivedAt # undefined
    /\ sumIn.departedAt # undefined
    /\ sumOut.value * MsPerMinute > sumIn.departedAt[1] - sumIn.arrivedAt[1]
    /\ sumOut.value >= 1

(***************************************************************************)
(* calculateTrends.  A text is the sequence of its characters; the         *)
(* responses of a report are the entries of responsesByStop in key order.  *)
(* A trend's value is kept as the number the source formats: the percent   *)
(* of `${rate}%`, the count of follow-ups, the tenths of toFixed(1).       *)
(***************************************************************************)
LowerOf ==
    ("I" :> "i") @@ ("S" :> "s") @@ ("U" :> "u") @@ ("E" :> "e") @@ ("F" :> "f")
    @@ ("D" :> "d") @@ ("T" :> "t")

\* text.toLowerCase()
toLowerCase(text) ==
    [i \in 1..Len(text) |-> IF text[i] \in DOMAIN LowerOf THEN LowerOf[text[i]] ELSE text[i]]

\* text.includes(needle)
includes(text, needle) ==
    \E k \in 0..(Len(text) - Len(needle)) : \A j \in 1..Len(needle) : text[k + j] = needle[j]

IssueNeedle == <<"i", "s", "s", "u", "e">>
FollowUpNeedle == <<"f", "o", "l", "l", "o", "w", "-", "u", "p">>
FollowupNeedle == <<"f", "o", "l", "l", "o", "w", "u", "p">>
DescriptionNeedle == <<"d", "e", "s", "c", "r", "i", "p", "t", "i", "o", "n">>

\* Question texts: "Issues", "ISSUE", "Follow-up", "Description", "Tidy"
IssuesText == <<"I", "s", "s", "u", "e", "s">>
IssueUpperText == <<"I", "S", "S", "U", "E">>
FollowUpText == <<"F", "o", "l", "l", "o", "w", "-", "u", "p">>
DescriptionText == <<"D", "e", "s", "c", "r", "i", "p", "t", "i", "o", "n">>
TidyText == <<"T", "i", "d", "y">>

\* Object.values(responsesByStop).flat()
RECURSIVE FlatResponses(_)
FlatResponses(responsesByStop) ==
    IF responsesByStop = <<>> THEN <<>>
    ELSE Head(responsesByStop).responses \o FlatResponses(Tail(responsesByStop))

\* responsesByStop[stopId] || []
ResponsesOfStop(responsesByStop, stopId) ==
    IF \E i \in 1..Len(responsesByStop) : responsesByStop[i].stopId = stopId
    THEN responsesByStop[CHOOSE i \in 1..Len(responsesByStop) :
                            responsesByStop[i].stopId = stopId].responses
    ELSE <<>>

\* list.filter(...).length
CountWhere(list, Test(_)) == Cardinality({i \in 1..Len(list) : Test(list[i])})

IsCompleted(stop) == stop.status = "completed"
IsYesNo(r) == r.type = "yesNo"
IsRating(r) == r.type = "rating"
IsIssueQuestion(r) == IsYesNo(r) /\ includes(toLowerCase(r.questionText), IssueNeedle)
IsFollowUpQuestion(r) ==
    /\ IsYesNo(r)
    /\ \/ includes(toLowerCase(r.questionText), FollowUpNeedle)
       \/ includes(toLowerCase(r.questionText), FollowupNeedle)
IsIssueFound(r) == IsIssueQuestion(r) /\ r.value = TRUE
IsFollowUpNeeded(r) == IsFollowUpQuestion(r) /\ r.value = TRUE

\* Math.round((part / whole) * 100) for whole > 0.  The quotient and the product are
\* rounded to doubles before Math.round: on a tie (x.5 percent) the double may fall on
\* either side, elsewhere the nearest integer is returned.
RoundedPercent(part, whole) ==
    IF (200 * part) % (2 * whole) = whole
    THEN {(100 * part) \div whole, (100 * part) \div whole + 1}
    ELSE {MathRound(100 * part, whole)}

\* completionRate >= 80 ? 'positive' : completionRate >= 50 ? 'neutral' : 'negative'
CompletionType(completionRate) ==
    IF completionRate >= 80 THEN "positive"
    ELSE IF completionRate >= 50 THEN "neutral" ELSE "negative"

\* issueRate > 30 ? 'negative' : issueRate > 10 ? 'neutral' : 'positive'
IssueType(issueRate) ==
    IF issueRate > 30 THEN "negative"
    ELSE IF issueRate > 10 THEN "neutral" ELSE "positive"

\* Number(response.value) of a rating, whose value is <<n>> for the number n and
\* <<>> for null: Number(null) is 0
Number(value) == IF value = <<>> THEN 0 ELSE value[1]

RECURSIVE SumRatings(_)
SumRatings(list) ==
    IF list = <<>> THEN 0
    ELSE (IF IsRating(Head(list)) THEN Number(Head(list).value) ELSE 0)
         + SumRatings(Tail(list))

\* avgRating >= 4 ? 'positive' : avgRating >= 3 ? 'neutral' : 'negative'
RatingType(sum, count) ==
    IF sum >= 4 * count THEN "positive"
    ELSE IF sum >= 3 * count THEN "neutral" ELSE "negative"

\* The trends for given roundings of the two rates.
TrendsWith(stopList, responsesByStop, completionRate, issueRate) ==
    LET allResponses == FlatResponses(responsesByStop)
        issueCount == CountWhere(allResponses, IsIssueQuestion)
        followUpCount == CountWhere(allResponses, IsFollowUpQuestion)
        ratingCount == CountWhere(allResponses, IsRating)
    IN  <<[label |-> "Completion Rate", value |-> completionRate,
           type |-> CompletionType(completionRate)]>>
        \o (IF issueCount > 0
            THEN <<[label |-> "Issues Reported", value |-> issueRate,
                    type |-> IssueType(issueRate)]>>
            ELSE <<>>)
        \o (IF followUpCount > 0
            THEN <<[label |-> "Follow-ups Needed",
                    value |-> CountWhere(allResponses, IsFollowUpNeeded),
                    type |-> IF CountWhere(allResponses, IsFollowUpNeeded) > 0
                             THEN "neutral" ELSE "positive"]>>
            ELSE <<>>)
        \o (IF ratingCount > 0
            THEN <<[label |-> "Avg. Satisfaction",
                    value |-> MathRound(10 * SumRatings(allResponses), ratingCount),
                    type |-> RatingType(SumRatings(allResponses), ratingCount)]>>
            ELSE <<>>)

\* calculateTrends(stopList, responsesByStop): the values it can return
calculateTrends(stopList, responsesByStop) ==
    LET allResponses == FlatResponses(responsesByStop)
        issueCount == CountWhere(allResponses, IsIssueQuestion)
        completionRates == IF Len(stopList) > 0
                           THEN RoundedPercent(CountWhere(stopList, IsCompleted), Len(stopList))
                           ELSE {0}
        issueRates == IF issueCount > 0
                      THEN RoundedPercent(CountWhere(allResponses, IsIssueFound), issueCount)
                      ELSE {0}
    IN  {TrendsWith(stopList, responsesByStop, cr, ir) : cr \in completionRates, ir \in issueRates}

\* A route of `total` stops of which the first `completed` are completed.
StopsWith(completed, total) ==
    [i \in 1..total |->
        [id |-> i,
         status |-> IF i <= completed THEN "completed"
                    ELSE IF i % 2 = 0 THEN "skipped" ELSE "pending"]]

\* `total` yes/no answers to an issue question, the first `found` of them true.
IssueResponses(found, total) ==
    [i \in 1..total |->
        [type |-> "yesNo",
         questionText |-> IF i % 2 = 0 THEN IssueUpperText ELSE IssuesText,
         value |-> i <= found]]

\* Other answers of a visit: none, a follow-up, ratings, an issue question of type text.
OtherResponses ==
    {<<>>,
     <<[type |-> "yesNo", questionText |-> FollowUpText, value |-> TRUE]>>,
     <<[type |-> "yesNo", questionText |-> TidyText, value |-> TRUE]>>,
     <<[type |-> "rating", questionText |-> TidyText, value |-> <<4>>],
       [type |-> "rating", questionText |-> TidyText, value |-> <<1>>]>>,
     <<[type |-> "text", questionText |-> IssuesText, value |-> TRUE]>>}

TrendInputs ==
    UNION {{[fn |-> "calculateTrends", stops |-> StopsWith(c, t), responsesByStop |-> <<>>] :
               c \in 0..t} : t \in 0..MaxTrendStops}
    \cup UNION {{[fn |-> "calculateTrends", stops |-> StopsWith(1, 2),
                  responsesByStop |-> <<[stopId |-> 1,
                                         responses |-> IssueResponses(i, n) \o other]>>] :
                    i \in 0..n, other \in OtherResponses} : n \in 0..MaxIssueResponses}

TrendsInit ==
    /\ RouteOfTheDay
    /\ sumIn \in TrendInputs
    /\ sumOut = null

CallCalculateTrends ==
    /\ sumOut = null
    /\ \E trends \in calculateTrends(sumIn.stops, sumIn.responsesByStop) :
          sumOut' = [value |-> trends]
    /\ UNCHANGED <<optVars, lateVars, syncQueue,
                   dbVars, routeStoreVars, createCalls, reportVars, responseVars,
                   geoVars, sumIn, nextId, now>>

SpecTrends == TrendsInit /\ [][CallCalculateTrends]_vars

TrendsLabelled(trends, label) == SelectSeq(trends, LAMBDA t : t.label = label)

\* C17: the Completion Rate trend is positive when completed/total is at least 80%,
\* negative when it is below 50%, neutral in between, for every number of stops.
C17_CompletionRateClasses ==
    (sumOut # null /\ Len(sumIn.stops) > 0) =>
        LET total == Len(sumIn.stops)
            completed == CountWhere(sumIn.stops, IsCompleted)
            trend == TrendsLabelled(sumOut.value, "Completion Rate")
        IN  /\ Len(trend) = 1
            /\ trend[1].type = (IF 100 * completed >= 80 * total THEN "positive"
                                ELSE IF 100 * completed < 50 * total THEN "negative"
                                ELSE "neutral")

\* C18: with at least one yes/no answer to a question containing "issue" there is one
\* issue trend: its rate is the percentage answered true, negative above 30%, neutral
\* from 10% to 30% inclusive, positive below 10%; with no such answer there is none.
C18_IssueRateClasses ==
    sumOut # null =>
        LET all == FlatResponses(sumIn.responsesByStop)
            total == CountWhere(all, IsIssueQuestion)
            found == CountWhere(all, IsIssueFound)
            trend == TrendsLabelled(sumOut.value, "Issues Reported")
        IN  IF total = 0 THEN Len(trend) = 0
            ELSE /\ Len(trend) = 1
                 /\ 2 * Abs(trend[1].value * total - 100 * found) <= total
                 /\ trend[1].type = (IF 100 * found > 30 * total THEN "negative"
                                     ELSE IF 100 * found >= 10 * total THEN "neutral"
                                     ELSE "positive")

(***************************************************************************)
(* calculateFlaggedIssues.  An issue keeps its severity, the stop, the     *)
(* kind of its description and the text the description quotes.            *)
(***************************************************************************)
severityOrderSwapped(severity) ==
    CASE severity = "high" -> 0 [] severity = "medium" -> 2 [] severity = "low" -> 1

\* const severityOrder = { high: 0, medium: 1, low: 2 }
severityOrder(severity) ==
    CASE severity = "high" -> 0 [] severity = "medium" -> 1 [] severity = "low" -> 2

RatingSeverityMedium(value) == "medium"

\* Number(response.value) === 1 ? 'high' : 'medium'
RatingSeverity(value) == IF Number(value) = 1 THEN "high" ELSE "medium"

NoDescription(responses) == <<>>

\* descriptionResponse?.value of responses.find(...), "" when there is none
DescriptionOf(responses) ==
    LET IsDescription(r) ==
            r.type = "text" /\ includes(toLowerCase(r.questionText), DescriptionNeedle)
    IN  IF \E i \in 1..Len(responses) : IsDescription(responses[i])
        THEN responses[CHOOSE i \in 1..Len(responses) :
                          /\ IsDescription(responses[i])
                          /\ \A j \in 1..(i - 1) : ~IsDescription(responses[j])].value
        ELSE <<>>

\* the body of responses.forEach for one response; the detail of a rating issue is
\* the value as the description prints it
IssuesOfResponse(stop, responses, response) ==
    (IF IsIssueFound(response)
     THEN <<[severity |-> "medium", kind |-> "issue", stopId |-> stop.id,
             detail |-> DescriptionOf(responses)]>>
     ELSE <<>>)
    \o (IF IsRating(response) /\ Number(response.value) <= 2
        THEN <<[severity |-> RatingSeverity(response.value), kind |-> "rating",
                stopId |-> stop.id,
                detail |-> IF response.value = <<>> THEN <<"null">>
                           ELSE <<ToString(response.value[1])>>]>>
        ELSE <<>>)

\* the body of stops.forEach for one stop
IssuesOfStop(stop, responsesByStop) ==
    LET responses == ResponsesOfStop(responsesByStop, stop.id)
        RECURSIVE From(_)
        From(i) == IF i > Len(responses) THEN <<>>
                   ELSE IssuesOfResponse(stop, responses, responses[i]) \o From(i + 1)
    IN  From(1)
        \o (IF stop.status = "skipped"
            THEN <<[severity |-> "low", kind |-> "skipped", stopId |-> stop.id,
                    detail |-> <<>>]>>
            ELSE <<>>)

\* the issues in the order they are pushed
RECURSIVE PushedIssues(_, _, _)
PushedIssues(stopList, responsesByStop, i) ==
    IF i > Len(stopList) THEN <<>>
    ELSE IssuesOfStop(stopList[i], responsesByStop)
         \o PushedIssues(stopList, responsesByStop, i + 1)

\* issues.sort((a, b) => severityOrder[a.severity] - severityOrder[b.severity]):
\* Array.prototype.sort is stable, so each element goes behind every element that
\* does not compare greater
RECURSIVE SortBySeverity(_, _)
SortBySeverity(issues, sorted) ==
    IF issues = <<>> THEN sorted
    ELSE LET issue == Head(issues)
             behind == {i \in 1..Len(sorted) :
                           severityOrder(sorted[i].severity)
                               - severityOrder(issue.severity) <= 0}
             k == IF behind = {} THEN 0 ELSE CHOOSE i \in behind : \A j \in behind : j <= i
         IN  SortBySeverity(Tail(issues),
                            SubSeq(sorted, 1, k) \o <<issue>>
                                \o SubSeq(sorted, k + 1, Len(sorted)))

calculateFlaggedIssues(stopList, responsesByStop) ==
    SortBySeverity(PushedIssues(stopList, responsesByStop, 1), <<>>)

(***************************************************************************)
(* calculateSummary.  Numbers it rounds to one decimal are kept in tenths. *)
(***************************************************************************)
\* Math.round(num / den) for den > 0 where the quotient went through more than one
\* floating-point operation: on a tie the double may fall on either side.
RoundedQuotient(num, den) ==
    IF (2 * num) % (2 * den) = den
    THEN {num \div den, num \div den + 1}
    ELSE {MathRound(num, den)}

TotalOnSiteTimeOfAllStops(stopList) ==
    LET RECURSIVE From(_)
        From(i) == IF i > Len(stopList) THEN 0
                   ELSE calculateTimeSpent(stopList[i]) + From(i + 1)
    IN  From(1)

\* completedStops.forEach((stop) => { totalOnSiteTime += calculateTimeSpent(stop) })
TotalOnSiteTime(stopList) ==
    LET RECURSIVE From(_)
        From(i) == IF i > Len(stopList) THEN 0
                   ELSE (IF IsCompleted(stopList[i]) THEN calculateTimeSpent(stopList[i])
                         ELSE 0) + From(i + 1)
    IN  From(1)

\* Math.max(0, Math.round(route.totalDuration / 60) - totalOnSiteTime)
TotalDriveTime(route, totalOnSiteTime) ==
    IF MathRound(route.totalDuration, 60) - totalOnSiteTime > 0
    THEN MathRound(route.totalDuration, 60) - totalOnSiteTime ELSE 0

TotalTimeEstimated(route, totalOnSiteTime, totalDriveTime) ==
    totalOnSiteTime + totalDriveTime

TotalTime(route, totalOnSiteTime, totalDriveTime) ==
    IF route.startedAt # undefined /\ route.completedAt # undefined
    THEN MathRound(getTime(route.completedAt) - getTime(route.startedAt), MsPerMinute)
    ELSE totalOnSiteTime + totalDriveTime

\* Math.round(locationsPerHour * 10), locationsPerHour being
\* hoursWorked > 0 ? completedStops.length / hoursWorked : 0
LocationsPerHourTenths(completed, totalTime) ==
    IF totalTime > 0 THEN RoundedQuotient(600 * completed, totalTime) ELSE {0}

\* calculateSummary(route, stops, responsesByStop): the values it can return
calculateSummary(route, stopList, responsesByStop) ==
    LET completed == CountWhere(stopList, IsCompleted)
        totalOnSiteTime == TotalOnSiteTime(stopList)
        totalDriveTime == TotalDriveTime(route, totalOnSiteTime)
        totalTime == TotalTime(route, totalOnSiteTime, totalDriveTime)
    IN  {[totalStops |-> Len(stopList),
          completedStops |-> completed,
          skippedStops |-> CountWhere(stopList, LAMBDA st : st.status = "skipped"),
          totalDriveTime |-> totalDriveTime,
          totalOnSiteTime |-> totalOnSiteTime,
          totalTime |-> totalTime,
          locationsPerHour |-> perHour,
          averageTimePerStop |-> IF completed > 0 THEN MathRound(totalOnSiteTime, completed)
                                 ELSE 0,
          totalDistance |-> distance,
          trends |-> trends,
          observations |-> <<>>,
          flaggedIssues |-> calculateFlaggedIssues(stopList, responsesByStop)] :
            perHour \in LocationsPerHourTenths(completed, totalTime),
            distance \in RoundedQuotient(route.totalDistance, 100),
            trends \in calculateTrends(stopList, responsesByStop)}

\* generateAIInsights(route, stops, responsesByStop): the observations pushed, each
\* named by its rule.  Averages are compared as exact quotients.
generateAIInsights(route, stopList, responsesByStop) ==
    LET allResponses == FlatResponses(responsesByStop)
        completed == CountWhere(stopList, IsCompleted)
        timed == {i \in 1..Len(stopList) : /\ IsCompleted(stopList[i])
                                            /\ stopList[i].arrivedAt # undefined
                                            /\ stopList[i].departedAt # undefined}
        ms(i) == getTime(stopList[i].departedAt) - getTime(stopList[i].arrivedAt)
        RECURSIVE SumMs(_)
        SumMs(S) == IF S = {} THEN 0
                    ELSE LET i == CHOOSE x \in S : TRUE IN ms(i) + SumMs(S \ {i})
        totalMs == SumMs(timed)
        maxMs == CHOOSE m \in {ms(i) : i \in timed} : \A i \in timed : ms(i) <= m
        issues == CountWhere(allResponses, IsIssueFound)
        followUps == CountWhere(allResponses, IsFollowUpNeeded)
        ratings == CountWhere(allResponses, IsRating)
        ratingSum == SumRatings(allResponses)
        lowRatings == CountWhere(allResponses,
                                 LAMBDA r : IsRating(r) /\ Number(r.value) <= 2)
        skipped == CountWhere(stopList, LAMBDA st : st.status = "skipped")
        photos == CountWhere(allResponses, LAMBDA r : r.type = "photo" /\ r.imageData)
        signatures == CountWhere(allResponses,
                                 LAMBDA r : r.type = "signature" /\ r.imageData)
        Push(test, observation) == IF test THEN <<observation>> ELSE <<>>
        observations ==
            \* completionRate === 100, >= 80, < 50; 0 for a route without stops
            (IF Len(stopList) > 0 /\ completed = Len(stopList) THEN <<"all completed">>
             ELSE IF Len(stopList) > 0 /\ 100 * completed >= 80 * Len(stopList)
                  THEN <<"strong completion rate">>
             ELSE IF Len(stopList) = 0 \/ 100 * completed < 50 * Len(stopList)
                  THEN <<"low completion rate">>
             ELSE <<>>)
            \o Push(timed # {} /\ maxMs * Cardinality(timed) > 2 * totalMs,
                    "stop longer than average")
            \o (IF timed # {} /\ totalMs < 5 * MsPerMinute * Cardinality(timed)
                THEN <<"short stops">>
                ELSE Push(timed # {} /\ totalMs > 30 * MsPerMinute * Cardinality(timed),
                          "long stops"))
            \* issueRate is Infinity when no stop is completed
            \o (IF issues > 0
                THEN IF completed = 0 \/ 100 * issues > 50 * completed
                     THEN <<"high issue rate">> ELSE <<"issues reported">>
                ELSE Push(completed > 0, "no issues"))
            \o Push(followUps > 0, "follow-up needed")
            \o (IF ratings > 0 /\ 2 * ratingSum >= 9 * ratings THEN <<"excellent satisfaction">>
                ELSE IF ratings > 0 /\ ratingSum >= 4 * ratings THEN <<"good satisfaction">>
                ELSE Push(ratings > 0 /\ ratingSum < 3 * ratings, "satisfaction needs attention"))
            \o Push(ratings > 0 /\ lowRatings > 0, "low ratings")
            \o Push(skipped > 0, "stops skipped")
            \o Push(photos > 0, "photos")
            \o Push(signatures > 0, "signatures")
            \* milesPerStop = route.totalDistance / 1609.34 / completedStops.length
            \o (IF route.totalDistance > 0 /\ completed > 0
                   /\ 100 * route.totalDistance > 965604 * completed
                THEN <<"high travel distance">>
                ELSE Push(route.totalDistance > 0 /\ completed > 0
                              /\ 1000 * route.totalDistance < 1931208 * completed,
                          "clustered stops"))
    IN  IF observations = <<>> THEN <<"default">> ELSE observations

\* The summaries asked for.  A visit is a stop with its answers: answered visits
\* (none, one answer of each kind, longer forms) last ten minutes when completed,
\* timed visits have no answers.  Routes carry the seconds and metres of the
\* optimizer and the timestamps updateRouteStatus can leave.  Besides the short
\* routes there is a day of five stops: four completed in 10, 10, 10 and 50 minutes,
\* one skipped, 300 minutes long.  The three families of inputs are kept apart.
SummaryInputs ==
    LET IssueYes == [type |-> "yesNo", questionText |-> IssuesText, value |-> TRUE]
        IssueYesUpper == [type |-> "yesNo", questionText |-> IssueUpperText, value |-> TRUE]
        IssueNo == [type |-> "yesNo", questionText |-> IssuesText, value |-> FALSE]
        TidyYes == [type |-> "yesNo", questionText |-> TidyText, value |-> TRUE]
        Rating(value) == [type |-> "rating", questionText |-> TidyText, value |-> value]
        Described(text) == [type |-> "text", questionText |-> DescriptionText, value |-> text]
        Photo(imageData) == [type |-> "photo", questionText |-> TidyText,
                             value |-> <<"c">>, imageData |-> imageData]
        Signature == [type |-> "signature", questionText |-> TidyText,
                      value |-> <<"s">>, imageData |-> TRUE]
        VisitResponses ==
            {<<>>, <<IssueYes>>, <<IssueNo>>, <<TidyYes>>, <<Described(<<"w", "e", "t">>)>>,
             <<Rating(<<>>)>>, <<Photo(TRUE), Signature>>, <<Photo(FALSE)>>}
            \cup {<<Rating(<<v>>)>> : v \in 1..MaxRating}
            \cup {<<Rating(<<2>>), Rating(<<1>>)>>,
                  <<Rating(<<1>>), IssueYes, Described(<<"w", "e", "t">>)>>,
                  <<Described(<<>>), IssueYesUpper, Rating(<<2>>)>>,
                  <<Rating(<<3>>), IssueYes, Rating(<<1>>), IssueYesUpper>>}
        Visit(status, arrivedAt, departedAt, responses) ==
            [status |-> status, arrivedAt |-> arrivedAt, departedAt |-> departedAt,
             responses |-> responses]
        AnsweredVisits ==
            {Visit("completed", Date(0), Date(10 * MsPerMinute), rs) : rs \in VisitResponses}
            \cup {Visit("skipped", undefined, undefined, rs) : rs \in VisitResponses}
        TimedVisits ==
            {Visit("completed", Date(0), Date(10 * MsPerMinute), <<>>),
             Visit("completed", Date(0), Date(50 * MsPerMinute), <<>>),
             Visit("completed", Date(0), Date(90000), <<>>),
             Visit("completed", Date(0), undefined, <<>>),
             Visit("skipped", Date(0), Date(7 * MsPerMinute), <<>>),
             Visit("in_progress", Date(0), undefined, <<>>),
             Visit("pending", undefined, undefined, <<>>)}
        SummaryRoutes ==
            {[NewRoute(1, "u1", "d1") EXCEPT
                  !.totalDuration = d, !.totalDistance = m,
                  !.startedAt = t[1], !.completedAt = t[2]] :
                d \in {0, 90, 1230, 3600}, m \in {0, 12340, 12350},
                t \in {<<undefined, undefined>>, <<Date(0), undefined>>,
                       <<undefined, Date(0)>>, <<Date(0), Date(0)>>,
                       <<Date(0), Date(300 * MsPerMinute)>>,
                       <<Date(0), Date(400 * MsPerMinute)>>, <<Date(MsPerMinute), Date(0)>>}}
        day == [NewRoute(1, "u1", "d1") EXCEPT
                    !.totalDuration = 3600, !.startedAt = Date(0),
                    !.completedAt = Date(300 * MsPerMinute)]
        quick == Visit("completed", Date(0), Date(10 * MsPerMinute), <<>>)
        slow == Visit("completed", Date(0), Date(50 * MsPerMinute), <<>>)
        skipped == Visit("skipped", undefined, undefined, <<>>)
        \* responsesByStop is the reduce of generateReport: one entry per stop that
        \* has a response
        SummaryInput(route, visits) ==
            [fn |-> "calculateSummary",
             route |-> route,
             stops |-> [i \in 1..Len(visits) |->
                           [id |-> i, status |-> visits[i].status,
                            arrivedAt |-> visits[i].arrivedAt,
                            departedAt |-> visits[i].departedAt]],
             responsesByStop |->
                 SelectSeq([i \in 1..Len(visits) |->
                               [stopId |-> i, responses |-> visits[i].responses]],
                           LAMBDA e : e.responses # <<>>)]
    IN  << {SummaryInput(NewRoute(1, "u1", "d1"), v) :
               v \in UNION {[1..n -> AnsweredVisits] : n \in 0..MaxSummaryStops}},
           {SummaryInput(r, v) :
               r \in SummaryRoutes,
               v \in UNION {[1..n -> TimedVisits] : n \in 0..MaxSummaryStops}},
           {SummaryInput(day, <<quick, quick, quick, slow, skipped>>)} >>

SummaryInit ==
    /\ RouteOfTheDay
    /\ \E k \in 1..Len(SummaryInputs) : sumIn \in SummaryInputs[k]
    /\ sumOut = null

\* summary = calculateSummary(...); summary.observations = await generateAIInsights(...)
CallCalculateSummary ==
    /\ sumOut = null
    /\ \E summary \in calculateSummary(sumIn.route, sumIn.stops, sumIn.responsesByStop) :
          sumOut' = [value |->
                        Merge(summary,
                              [observations |->
                                  generateAIInsights(sumIn.route, sumIn.stops,
                                                     sumIn.responsesByStop)])]
    /\ UNCHANGED <<optVars, lateVars, syncQueue,
                   dbVars, routeStoreVars, createCalls, reportVars, responseVars,
                   geoVars, sumIn, nextId, now>>

SpecSummary == SummaryInit /\ [][CallCalculateSummary]_vars

AbsoluteValue(n) == IF n < 0 THEN -n ELSE n

\* C14: totalOnSiteTime is the sum of the time spent over the completed stops only,
\* and totalDriveTime is max(0, round(route.totalDuration / 60) - totalOnSiteTime),
\* so never negative.
C14_OnSiteAndDriveTime ==
    sumOut # null =>
        LET completedTimes ==
                [i \in 1..Len(sumIn.stops) |->
                    IF sumIn.stops[i].status = "completed"
                    THEN calculateTimeSpent(sumIn.stops[i]) ELSE 0]
            RECURSIVE Sum(_)
            Sum(list) == IF list = <<>> THEN 0 ELSE Head(list) + Sum(Tail(list))
            estimate == (sumIn.route.totalDuration + 30) \div 60
        IN  /\ sumOut.value.totalOnSiteTime = Sum(completedTimes)
            /\ sumOut.value.totalDriveTime >= 0
            /\ sumOut.value.totalDriveTime
                  = (IF estimate >= sumOut.value.totalOnSiteTime
                     THEN estimate - sumOut.value.totalOnSiteTime ELSE 0)

\* The estimate is below the time on site, and a stop that is not completed has
\* spent time.
C14_Witness ==
    /\ sumOut # null
    /\ sumOut.value.totalOnSiteTime > 0
    /\ sumOut.value.totalDriveTime = 0
    /\ sumIn.route.totalDuration > 0
    /\ sumIn.route.totalDuration < 60 * sumOut.value.totalOnSiteTime - 30
    /\ \E i \in 1..Len(sumIn.stops) :
          sumIn.stops[i].status # "completed" /\ calculateTimeSpent(sumIn.stops[i]) > 0

\* C15: totalTime is the minutes of wall clock between route.startedAt and
\* route.completedAt when both are set, and totalOnSiteTime + totalDriveTime
\* otherwise.
C15_TotalTime ==
    sumOut # null =>
        IF sumIn.route.startedAt # undefined /\ sumIn.route.completedAt # undefined
        THEN 2 * AbsoluteValue(sumOut.value.totalTime * MsPerMinute
                               - (sumIn.route.completedAt[1] - sumIn.route.startedAt[1]))
                <= MsPerMinute
        ELSE sumOut.value.totalTime
                = sumOut.value.totalOnSiteTime + sumOut.value.totalDriveTime

\* The day of five stops: 300 minutes of wall clock while the estimate says 80.
C15_Witness ==
    /\ sumOut # null
    /\ sumIn.route.startedAt # undefined
    /\ sumIn.route.completedAt # undefined
    /\ sumOut.value.totalTime = 300
    /\ sumOut.value.totalOnSiteTime + sumOut.value.totalDriveTime = 80

\* C16: locationsPerHour is the completed-stop count divided by totalTime / 60,
\* rounded to one decimal, and 0 when totalTime is 0; averageTimePerStop is
\* totalOnSiteTime divided by the completed-stop count, rounded to an integer, and 0
\* without a completed stop; four completed stops of 10, 10, 10 and 50 minutes in 300
\* minutes of wall clock give 0.8 and 20.
C16_RatesOfTheDay ==
    sumOut # null =>
        LET completed == Cardinality({i \in 1..Len(sumIn.stops) :
                                         sumIn.stops[i].status = "completed"})
            totalTime == sumOut.value.totalTime
            onSite == sumOut.value.totalOnSiteTime
        IN  /\ totalTime = 0 => sumOut.value.locationsPerHour = 0
            /\ totalTime # 0 =>
                  2 * AbsoluteValue(sumOut.value.locationsPerHour * totalTime
                                    - 600 * completed) <= AbsoluteValue(totalTime)
            /\ completed = 0 => sumOut.value.averageTimePerStop = 0
            /\ completed > 0 =>
                  2 * AbsoluteValue(sumOut.value.averageTimePerStop * completed - onSite)
                     <= completed
            /\ (completed = 4 /\ onSite = 80 /\ totalTime = 300) =>
                  (sumOut.value.locationsPerHour = 8 /\ sumOut.value.averageTimePerStop = 20)

IssuesOfSeverity(issues, severity) == SelectSeq(issues, LAMBDA i : i.severity = severity)

\* C19: flaggedIssues holds the pushed issues ordered high, medium, low, and within one
\* severity in the order they were met: stops in visit order, a stop's answers in
\* answer order, the skipped-stop issue behind the stop's answer issues.
C19_IssuesOrderedBySeverity ==
    sumOut # null =>
        LET out == sumOut.value.flaggedIssues
            pushed == PushedIssues(sumIn.stops, sumIn.responsesByStop, 1)
        IN  /\ Len(out) = Len(pushed)
            /\ \A i, j \in 1..Len(out) :
                  i < j => /\ out[j].severity = "high" => out[i].severity = "high"
                           /\ out[i].severity = "low" => out[j].severity = "low"
                           /\ out[i].severity = out[j].severity
                                 => out[i].stopId <= out[j].stopId
            /\ \A sev \in {"high", "medium", "low"} :
                  IssuesOfSeverity(out, sev) = IssuesOfSeverity(pushed, sev)
            /\ \A i \in 1..Len(sumIn.stops) :
                  LET own == SelectSeq(pushed, LAMBDA x : x.stopId = i)
                  IN  \A k \in 1..Len(own) : own[k].kind = "skipped" => k = Len(own)

\* Issues of every severity from two stops, pushed in another order than returned.
C19_Witness ==
    /\ sumOut # null
    /\ Len(sumOut.value.flaggedIssues) >= 5
    /\ sumOut.value.flaggedIssues # PushedIssues(sumIn.stops, sumIn.responsesByStop, 1)
    /\ \A sev \in {"high", "medium", "low"} :
          IssuesOfSeverity(sumOut.value.flaggedIssues, sev) # <<>>
    /\ \E i, j \in 1..Len(sumOut.value.flaggedIssues) :
          /\ i < j
          /\ sumOut.value.flaggedIssues[i].severity = sumOut.value.flaggedIssues[j].severity
          /\ sumOut.value.flaggedIssues[i].stopId < sumOut.value.flaggedIssues[j].stopId

\* the issues of a stop's ratings of value v, by severity
RatingIssues(issues, stopId, v, severity) ==
    Len(SelectSeq(issues, LAMBDA i : /\ i.kind = "rating"
                                      /\ i.stopId = stopId
                                      /\ i.detail = <<ToString(v)>>
                                      /\ i.severity = severity))

\* C20: a rating answer yields a flagged issue exactly when its value is at most 2:
\* one high issue for 1, one medium issue for 2, none for 3 and above.
C20_RatingIssues ==
    sumOut # null =>
        \A s \in 1..Len(sumIn.stops), v \in 1..MaxRating :
            LET answers == CountWhere(ResponsesOfStop(sumIn.responsesByStop, s),
                                      LAMBDA r : r.type = "rating" /\ r.value = <<v>>)
                issues == sumOut.value.flaggedIssues
            IN  /\ RatingIssues(issues, s, v, "high") = (IF v = 1 THEN answers ELSE 0)
                /\ RatingIssues(issues, s, v, "medium") = (IF v = 2 THEN answers ELSE 0)
                /\ RatingIssues(issues, s, v, "low") = 0

\* One stop rated 2 and 1, another rated 3.
C20_Witness ==
    /\ sumOut # null
    /\ \E s \in 1..Len(sumIn.stops) :
          /\ RatingIssues(sumOut.value.flaggedIssues, s, 1, "high") = 1
          /\ RatingIssues(sumOut.value.flaggedIssues, s, 2, "medium") = 1
    /\ \E s \in 1..Len(sumIn.stops) :
          /\ \E r \in {ResponsesOfStop(sumIn.responsesByStop, s)} :
                r # <<>> /\ r[1].type = "rating" /\ r[1].value = <<3>>
          /\ \A sev \in {"high", "medium", "low"} :
                RatingIssues(sumOut.value.flaggedIssues, s, 3, sev) = 0

\* the issues of a stop that come from its issue answers
AnswerIssues(issues, stopId) ==
    SelectSeq(issues, LAMBDA i : i.kind = "issue" /\ i.stopId = stopId)

\* C21: each yes/no answer to a question containing "issue" whose value is true
\* yields exactly one medium issue for its stop, and the issue carries the value of
\* the stop's text answer to a question containing "description" when there is one;
\* an answer of false yields none.
C21_IssueAnswers ==
    sumOut # null =>
        \A s \in 1..Len(sumIn.stops) :
            LET rs == ResponsesOfStop(sumIn.responsesByStop, s)
                yes == {i \in 1..Len(rs) : /\ rs[i].type = "yesNo"
                                            /\ includes(toLowerCase(rs[i].questionText),
                                                        IssueNeedle)
                                            /\ rs[i].value = TRUE}
                described == {i \in 1..Len(rs) : /\ rs[i].type = "text"
                                                  /\ includes(toLowerCase(rs[i].questionText),
                                                              DescriptionNeedle)}
                found == AnswerIssues(sumOut.value.flaggedIssues, s)
            IN  /\ Len(found) = Cardinality(yes)
                /\ \A k \in 1..Len(found) :
                      /\ found[k].severity = "medium"
                      /\ described # {} => \E i \in described : found[k].detail = rs[i].value
                      /\ described = {} => found[k].detail = <<>>

\* One stop answers yes and describes the issue, another answers no.
C21_Witness ==
    /\ sumOut # null
    /\ \E s \in 1..Len(sumIn.stops) :
          /\ Len(AnswerIssues(sumOut.value.flaggedIssues, s)) = 1
          /\ AnswerIssues(sumOut.value.flaggedIssues, s)[1].detail = <<"w", "e", "t">>
    /\ \E s \in 1..Len(sumIn.stops) :
          LET rs == ResponsesOfStop(sumIn.responsesByStop, s)
          IN  /\ rs # <<>>
              /\ rs[1].type = "yesNo"
              /\ rs[1].questionText = IssuesText
              /\ rs[1].value = FALSE
              /\ AnswerIssues(sumOut.value.flaggedIssues, s) = <<>>

\* C28: a rating answer left unanswered (value null) yields no flagged issue; the
\* issues that come from ratings come from stored values 1 and 2 only.
C28_NullRatingNoIssue ==
    sumOut # null =>
        \A k \in 1..Len(sumOut.value.flaggedIssues) :
            sumOut.value.flaggedIssues[k].kind = "rating"
                => sumOut.value.flaggedIssues[k].detail \in {<<"1">>, <<"2">>}

\* C22: for a route without stops the summary has every numeric metric 0, no
\* trend, no flagged issue, and one observation, the default one.
C22_EmptyRouteSummary ==
    (sumOut # null /\ sumIn.stops = <<>>) =>
        /\ \A metric \in {"totalStops", "completedStops", "skippedStops", "totalDriveTime",
                          "totalOnSiteTime", "totalTime", "locationsPerHour",
                          "averageTimePerStop", "totalDistance"} :
              sumOut.value[metric] = 0
        /\ sumOut.value.trends = <<>>
        /\ sumOut.value.flaggedIssues = <<>>
        /\ sumOut.value.observations = <<"default">>

(***************************************************************************)
(* Properties of the route store.                                          *)
(***************************************************************************)
StopsOfRoute(routeId) == {s \in dbStops : s.routeId = routeId}

\* C4: after any sequence of addStop, removeStop, reorderStops and
\* optimizeRouteOrder calls, the stops stored for a route carry the order values
\* 0..n-1, with no gap and no duplicate.
C4_OrdersContiguous ==
    \A r \in dbRoutes :
        {s.order : s \in StopsOfRoute(r.id)} = 0..(Cardinality(StopsOfRoute(r.id)) - 1)

\* C5: the database holds at most one Route per (userId, date), also while
\* createRoute calls for the same user and date overlap.
C5_OneRoutePerUserAndDate ==
    \A r, q \in dbRoutes : (r.userId = q.userId /\ r.date = q.date) => r.id = q.id

(***************************************************************************)
(* Properties of the report store and of the question store.               *)
(***************************************************************************)
\* C6: after any generateReport calls the table holds at most one DayReport per route,
\* and a report that is regenerated stays stored under its id.
C6_OneReportPerRoute ==
    /\ [](\A routeId \in RouteIds : Cardinality(ReportsOf(routeId)) <= 1)
    /\ [][\A r \in dbReports : \E q \in dbReports' : q.id = r.id /\ q.routeId = r.routeId]_vars

\* C11: a generateReport call for a route id that has no Route record ends with the
\* stored DayReports and currentReport as they were, isGenerating false and error set.
C11_MissingRouteFails ==
    [][\A c \in Callers :
          (/\ reportCalls[c].pc # "idle"
           /\ reportCalls'[c].pc = "idle"
           /\ \A r \in dbRoutes : r.id # reportCalls[c].routeId)
          => (/\ dbReports' = dbReports
              /\ currentReport' = currentReport
              /\ isGenerating' = FALSE
              /\ reportError' # "none")]_vars

\* A call for a missing route has failed while a report of another route is stored and
\* current.
C11_Witness ==
    /\ reportError = "Route not found"
    /\ dbReports # {}
    /\ currentReport # null
    /\ \A c \in Callers : reportCalls[c].pc = "idle"

\* C7: after any loadResponses, clearResponses and saveResponse calls the table holds at
\* most one QuestionResponse per (stopId, questionId) pair.
C7_OneResponsePerQuestion ==
    \A r \in dbResponses : \A q \in dbResponses :
        (r.stopId = q.stopId /\ r.questionId = q.questionId) => r.id = q.id

(***************************************************************************)
(* Properties of a running route.                                          *)
(***************************************************************************)
StopTransitions ==
    {<<"pending", "in_progress">>, <<"in_progress", "completed">>, <<"pending", "skipped">>}

\* C8: a stored stop's status only moves pending -> in_progress, in_progress -> completed
\* or pending -> skipped; a completed or skipped stop never changes status again.
C8_StopStatusTransitions ==
    [][\A s \in dbStops : \A t \in dbStops' :
          (s.id = t.id /\ s.status # t.status) => <<s.status, t.status>> \in StopTransitions]_vars

\* C9: a stored stop has a departedAt only when it is completed, an in_progress stop has
\* an arrivedAt and no departedAt, and a departedAt is never earlier than the arrivedAt.
C9_StopTimestamps ==
    \A s \in dbStops :
        /\ s.departedAt # undefined => s.status = "completed"
        /\ s.status = "in_progress" => (s.arrivedAt # undefined /\ s.departedAt = undefined)
        /\ (s.arrivedAt # undefined /\ s.departedAt # undefined)
              => s.departedAt[1] >= s.arrivedAt[1]

RouteTransitions ==
    {<<"planning", "active">>, <<"active", "completed">>,
     <<"planning", "cancelled">>, <<"active", "cancelled">>}

\* C10: a stored route's status only moves planning -> active -> completed, or to
\* cancelled from planning or active; startedAt is set by the first move to active and
\* never overwritten; a move to completed sets completedAt; a completed or cancelled
\* route never changes status again.
C10_RouteStatusTransitions ==
    [][\A r \in dbRoutes : \A q \in dbRoutes' :
          r.id = q.id =>
            /\ r.status # q.status => <<r.status, q.status>> \in RouteTransitions
            /\ r.startedAt # undefined => q.startedAt = r.startedAt
            /\ (r.status # "active" /\ q.status = "active") => q.startedAt # undefined
            /\ (r.status # "completed" /\ q.status = "completed") => q.completedAt = Date(now)]_vars

\* C26: whenever the route store holds a non-empty stops list, currentStopIndex is
\* an index into it, also when every stop of the loaded route is completed or
\* skipped.
C26_CurrentStopIndexValid ==
    stops # <<>> => (0 <= currentStopIndex /\ currentStopIndex < Len(stops))

(***************************************************************************)
(* Properties of the optimizer.                                            *)
(***************************************************************************)
\* The call has ended and its value came from basicOptimization.
FallbackUsed ==
    /\ optPc = "done"
    /\ Len(optIn) >= 2
    /\ \/ ~optKey
       \/ optResp \in {"throw", "not_ok", "bad_json"}
       \/ optResp = "json" /\ (optData.routes # "one" \/ ~optData.hasSteps)

IsPermutationFromZero(order, n) ==
    /\ Len(order) = n
    /\ {order[i] : i \in 1..Len(order)} = 0..(n - 1)
    /\ order[1] = 0

\* C1: for every input of n >= 2 points the nearest-neighbour fallback returns an
\* order that is a permutation of 0..n-1 whose first element is 0.
C1_OptimizerValidity ==
    FallbackUsed => IsPermutationFromZero(optOut.orderedStops, Len(optIn))

\* A fallback run on three or more points that reorders them.
C1_Witness ==
    /\ FallbackUsed
    /\ Len(optIn) >= 3
    /\ optOut.orderedStops # [i \in 1..Len(optIn) |-> i - 1]

\* A 2xx answer whose JSON is not a visit of every job exactly once.
MalformedPayload(data, n) ==
    \/ data.routes # "one"
    \/ ~data.hasSteps
    \/ ~IsPermutationFromZero(OrderedStopsOf(data.steps), n)

ServiceFailed ==
    /\ optPc = "done"
    /\ Len(optIn) >= 2
    /\ optKey
    /\ \/ optResp \in {"throw", "not_ok", "bad_json"}
       \/ optResp = "json" /\ MalformedPayload(optData, Len(optIn))

\* C2: when the request throws, answers non-2xx or answers with a malformed
\* payload, optimizeRoute resolves with the result of the local fallback on the
\* same input (never null, never a rejection).
C2_ServiceFailureFallsBack ==
    ServiceFailed => (optOut # null /\ optOut = basicOptimization(optIn))

RECURSIVE PathLength(_, _, _)
PathLength(coordinates, order, i) ==
    IF i >= Len(order) THEN 0
    ELSE haversineDistance(coordinates[order[i] + 1], coordinates[order[i + 1] + 1])
         + PathLength(coordinates, order, i + 1)

\* C3: the total distance of the fallback is the sum of the distances between
\* consecutive entries of the returned order (no return leg); for two points the
\* order is [0,1] and the total is the distance between them.
C3_TotalIsPathLength ==
    FallbackUsed =>
        /\ optOut.totalDistance = PathLength(optIn, optOut.orderedStops, 1)
        /\ Len(optIn) = 2 =>
              /\ optOut.orderedStops = <<0, 1>>
              /\ optOut.totalDistance = haversineDistance(optIn[1], optIn[2])

\* A fallback tour of three or more points with two legs of non-zero length.
C3_Witness ==
    /\ FallbackUsed
    /\ Len(optIn) >= 3
    /\ optOut.totalDistance > haversineDistance(optIn[1], optIn[optOut.orderedStops[2] + 1])
    /\ optIn[optOut.orderedStops[2] + 1] # optIn[1]


\* C24: at each step of the fallback tour the index appended is an unvisited point
\* at minimum distance from the current point; among several unvisited points at
\* that distance the lowest index is taken, duplicates at distance 0 included.
C24_NearestLowestIndex ==
    FallbackUsed =>
        LET order == optOut.orderedStops
            d(i, j) == haversineDistance(optIn[i + 1], optIn[j + 1])
        IN  \A k \in 1..(Len(order) - 1) :
                LET unvisited == (0..(Len(optIn) - 1)) \ {order[i] : i \in 1..k}
                IN  /\ order[k + 1] \in unvisited
                    /\ \A j \in unvisited :
                          \/ d(order[k], order[k + 1]) < d(order[k], j)
                          \/ /\ d(order[k], order[k + 1]) = d(order[k], j)
                             /\ order[k + 1] <= j

\* A fallback tour on three or more points in which two unvisited duplicates of the
\* current point tie at distance 0.
C24_Witness ==
    /\ FallbackUsed
    /\ Len(optIn) >= 3
    /\ \E k \in 1..(Len(optOut.orderedStops) - 1) :
          \E j \in (0..(Len(optIn) - 1)) \ {optOut.orderedStops[i] : i \in 1..(k + 1)} :
              /\ optIn[j + 1] = optIn[optOut.orderedStops[k] + 1]
              /\ optIn[optOut.orderedStops[k + 1] + 1] = optIn[optOut.orderedStops[k] + 1]

\* C27: addStop and optimizeRouteOrder calls that overlap lose no stop: once all
\* of them have finished, the in-memory stops list holds exactly the stops that
\* the database has for the route, each once.
C27_NoStopLost ==
    (currentRoute # null /\ \A c \in Callers : stopCalls[c].pc = "idle") =>
        /\ {stops[i].id : i \in 1..Len(stops)}
              = {s.id : s \in {d \in dbStops : d.routeId = currentRoute.id}}
        /\ \A i, j \in 1..Len(stops) : stops[i].id = stops[j].id => i = j

\* C29: in the auth store isAuthenticated is true only while there is a session;
\* after logout, which clears the session, it stays false until the next login
\* or createUser, also when a checkSession call was awaiting its user lookup at
\* the moment of the logout.
C29_AuthenticatedOnlyWithSession == isAuthenticated => session # null

\* what holds of the invocations at every moment: each was made by the timer of
\* one call, with the args of that call, not earlier than delay after it, while
\* the component was mounted, and that call was not followed by another call
\* less than delay after it; no call is invoked twice; at most one timer is
\* pending, and it is the one of the last call
DebouncedInvocations ==
    /\ \A i \in 1..Len(invocations) :
          LET inv == invocations[i]
          IN  /\ inv.timer \in 1..Len(calls)
              /\ inv.args = calls[inv.timer].args
              /\ inv.at >= calls[inv.timer].at + delay
              /\ inv.mounted
              /\ inv.timer < Len(calls) =>
                     calls[inv.timer + 1].at >= calls[inv.timer].at + delay
    /\ \A i, j \in 1..Len(invocations) :
          invocations[i].timer = invocations[j].timer => i = j
    /\ \A t \in timers : t.id = Len(calls)

\* C30: each call of the debounced callback cancels the pending timer of the call
\* before it, so a burst of calls less than delay apart ends in exactly one
\* invocation, with the args of the last call and not earlier than delay after
\* it; nothing is invoked after the component has unmounted.  Once the calls
\* have stopped, the last call has been invoked unless the component unmounted.
C30_DebouncedOnce ==
    /\ []DebouncedInvocations
    /\ <>[](calls # <<>> =>
               \/ ~mounted
               \/ \E i \in 1..Len(invocations) : invocations[i].timer = Len(calls))

\* a burst of three calls, each less than delay after the one before, was
\* answered by one invocation, with the args of the third
C30_Witness ==
    /\ Len(calls) = 3
    /\ calls[2].at < calls[1].at + delay
    /\ calls[3].at < calls[2].at + delay
    /\ calls[2].at > calls[1].at
    /\ Len(invocations) = 1
    /\ invocations[1].args = calls[3].args
    /\ calls[3].args # calls[1].args

(***************************************************************************)
(* Properties of the question store                                        *)
(***************************************************************************)
\* C25: the questionText and the type of a stored response are those of its first
\* save: no step of the question store (updateTemplate, toggleTemplateActive,
\* deleteTemplate, a later saveResponse or updateResponse, ...) changes them, in
\* the table or in the in-memory list.
C25_TextAndTypeFixed ==
    [][/\ \A before \in dbResponses, after \in dbResponses' :
             before.id = after.id =>
                 /\ after.questionText = before.questionText
                 /\ after.type = before.type
       /\ \A i \in 1..Len(currentResponses), j \in 1..Len(currentResponses') :
             currentResponses[i].id = currentResponses'[j].id =>
                 /\ currentResponses'[j].questionText = currentResponses[i].questionText
                 /\ currentResponses'[j].type = currentResponses[i].type]_vars

\* a stored response that has been updated since its first save, and whose
\* template has been given another text and another type since: it still carries
\* the text and the type of its first save
C25_Witness ==
    \E r \in dbResponses, t \in dbTemplates :
        /\ t.id = r.questionId
        /\ t.text # r.questionText
        /\ t.type # r.type
        /\ \E item \in syncQueue :
              item.action = "update" /\ item.entity = "response" /\ item.entityId = r.id
        /\ \E i \in 1..Len(currentResponses) : currentResponses[i] = r

\* the item that addToSyncQueue(action, entity, entityId, ...) stores is in the
\* queue after the step, unsynced
Queued(action, entity, entityId) ==
    \E item \in syncQueue' :
        /\ item.action = action
        /\ item.entity = entity
        /\ item.entityId = entityId
        /\ ~item.synced

\* every record that a step adds to, changes in or removes from a table has its
\* item in the queue after the step
ChangesQueued(before, after, entity) ==
    /\ \A r \in after \ before :
          IF \E old \in before : old.id = r.id
          THEN Queued("update", entity, r.id)
          ELSE Queued("create", entity, r.id)
    /\ \A old \in before :
          (\A r \in after : r.id # old.id) => Queued("delete", entity, old.id)

\* C23: every step of a store action that creates, updates or deletes a route, a
\* stop, a question template or a response in the local database leaves an
\* unsynced item for that record in the sync queue.
C23_ChangesQueued ==
    [][/\ ChangesQueued(dbRoutes, dbRoutes', "route")
       /\ ChangesQueued(dbStops, dbStops', "stop")
       /\ ChangesQueued(dbTemplates, dbTemplates', "question")
       /\ ChangesQueued(dbResponses, dbResponses', "response")]_vars

====
